---- MODULE Spec2Model ----
(***************************************************************************)
(* A model of the write-and-lookup core of the trace store:                *)
(*   - the paged finder (tempodb/encoding/finder_paged.go),                *)
(*   - the block artifact writers writeBlockMeta / CopyBlock and the bloom *)
(*     regeneration command (cmd-gen-bloom.go),                            *)
(*   - the distributor's Push, requestsByTraceID and ingester fan-out.     *)
(* Each part has its own specification (SpecFind, SpecBlock, SpecRegroup,  *)
(* SpecPush); the variables of the other parts stay at their idle values.  *)
(***************************************************************************)
EXTENDS Integers, Sequences, FiniteSets, TLC

(***************************************************************************)
(* Bounds of the model.                                                    *)
(***************************************************************************)
MaxPages == 3
MaxPageObjs == 2
MaxID == 3
MaxShards == 2
MaxCopyAttempts == 2
MaxILS == 2
MaxSpans == 2
NumIngesters == 4
ReplicationFactor == 3
MaxBudget == 8

VARIABLES
    \* ---- paged finder ----
    blockPages,   \* the data object: a sequence of pages, each a sequence of [id, obj]
    combinerSet,  \* f.combiner != nil
    findID,       \* the id passed to Find
    findPc,       \* position inside Find: "start", "findOne", "at", "done"
    record,       \* the local `record` of Find (Nil or a Record)
    recIdx,       \* the local `i` of Find (0-based position in the index)
    bytesFound,   \* the local `bytesFound` of Find
    findErr,      \* the error Find returns ("none" for nil)
    pagesRead,    \* history: the records handed to the data reader, in order
    atCalls,      \* history: the positions handed to index.At, in order
    combineErr,   \* history: a Combine call of Find returned an error
    \* ---- block artifacts ----
    store,        \* store[s][name]: content of the object of the block in backend s (0: absent)
    nWrites,      \* history: nWrites[s][name] counts the successful writes of the object
    writeLog,     \* history: the write attempts of each operation, [name, ok] in order
    shardCount,   \* meta.BloomShardCount, the shard count of the block's bloom filter
    wPos,         \* block writer: position in WriteBlockOrder (0: failed)
    cPos,         \* CopyBlock: position in CopyBlockOrder (0: not running)
    cBuf,         \* CopyBlock: what copy / copyStream has read from src and not yet written (0: nothing)
    cAttempts,    \* CopyBlock: number of calls made so far
    cResult,      \* CopyBlock: result of the last call, "none", "ok" or "error"
    gPc,          \* bloomCmd.Run: "idle", "replay", "write", "verify", "test", "done"
    gStore,       \* bloomCmd.Run: the backend the command was pointed at
    gShard,       \* bloomCmd.Run: the loop variable i of the write and read-back loops
    gResult,      \* bloomCmd.Run: "none", "ok" or "error"
    \* ---- distributor ----
    userID,       \* the tenant of the request context (NoTenant: none)
    req,          \* the PushRequest: its Batch
    pushPc,       \* "start", "regrouped", "fanout", "done"
    pushErr,      \* the error Push (or requestsByTraceID) returned, "none" for nil
    keys,         \* requestsByTraceID: the ring keys
    traces,       \* requestsByTraceID: the traces, aligned with keys
    ids,          \* requestsByTraceID: the trace ids, aligned with keys
    searchEnabled,  \* d.searchEnabled
    rateTokens,     \* rateTokens[t]: the bytes the rate limiter still admits for tenant t
    limiter,        \* history: "notAsked", "allowed" or "denied"
    fanOut,         \* history: ring.DoBatch was called
    rpc,            \* rpc[g]: the callback for ingester g: "idle", "pending", "inflight", "none" or its error
    accepted,       \* history: accepted[g]: PushBytes succeeded at ingester g
    rpcReq,         \* history: rpcReq[g]: the PushBytesRequest sent to ingester g
    batchResult,    \* what DoBatch returns: "pending", "none" or the first per-key error
    discardedSpans, \* metricDiscardedSpans of the tenant, by reason
    spansIngested,  \* metricSpansIngested of the tenant
    bytesIngested,  \* metricBytesIngested of the tenant
    callerCtx,      \* the context of the caller of Push: "live" or "cancelled"
    \* ---- cache decorator ----
    cache,        \* cache[k]: the entry of the cache under key k
    nextStore,    \* nextStore[o]: object o of the store behind nextReader / nextWriter
    rwCall,       \* history: the last call of the decorator, its operation and arguments
    rwCalls,      \* history: the calls the decorator made on cache and next during it, in order
    rwRet,        \* history: what the last call returned
    objects,      \* the objects the callers of the decorator name
    written,      \* history: written[o]: the outcome of the one Write of o, where Writes are counted
    rd,           \* the Read in flight: where it stands and what it holds (pc "idle": none)
    wr,           \* the Write in flight: its call, the calls done and the calls still to make
    \* ---- hedging decorator ----
    hedgeOp,      \* the backend operation being called ("none" before the first call)
    hedgeAt,      \* the HedgeRequestsAt setting of the call, in ticks (0: disabled)
    clock,        \* the time the call has run, in ticks
    attempts,     \* attempts[i]: "none", "inflight", "ok", "failed" or "cancelled"
    requests,     \* history: the backend requests the call has issued
    firstReturnedAt,  \* history: the time the first attempt returned (-1: it has not)
    hedgeRet,     \* "none", "running", "ok", "err" or "deadline"
    storeErr,     \* the error the client of the object store gave the backend ("none": nil)
    callErr,      \* the error the backend returned to its caller ("none": nil)
    \* ---- bloom shards of gen bloom ----
    bloomIDs,     \* the ids of the objects of the block's data, in replay order
    bloomMeta,    \* meta.BloomShardCount
    bloomPc,      \* bloomCmd.Run: "idle", "add", "write", "read", "test", "done"
    bloomPos,     \* the position of the running loop (replay position or shard i)
    blooms,       \* the shards of the ShardedBloomFilter in memory
    bloomObjs,    \* bloomObjs[i]: the bytes of object bloom-i in the backend (Nil: absent)
    bloomFilters, \* shardedBloomFilter: the filters read back, in order
    bloomResult,  \* "none", "ok", "verified", "error" or "corrupt"
    \* ---- distributor lifecycle ----
    strategy,     \* o.IngestionRateStrategy(): "local" or "global"
    subState,     \* subState[s]: the state of subservice s ("absent": not created)
    svcState,     \* the state of the distributor's service
    svcCtx,       \* the service context handed to starting and running
    watcher,      \* the subservices whose failure d.subservicesWatcher has yet to hand
                  \* over, in the order in which they failed
    startingRet,  \* what d.starting returned ("none": it has not)
    runningRet,   \* what d.running returned
    stoppingRet,  \* what d.stopping returned
    \* ---- distributor configuration ----
    cfg,          \* d.cfg: the fields LogReceivedTraces and ExtendWrites
    ringDesc      \* d.ingestersRing: the state of each instance of the ring

findVars == <<blockPages, combinerSet, findID, findPc, record, recIdx,
              bytesFound, findErr, pagesRead, atCalls, combineErr>>

blockVars == <<store, nWrites, writeLog, shardCount, wPos, cPos, cBuf, cAttempts, cResult,
               gPc, gStore, gShard, gResult>>

pushVars == <<userID, req, pushPc, pushErr, keys, traces, ids, searchEnabled, rateTokens,
              limiter, fanOut, rpc, accepted, rpcReq, batchResult, discardedSpans,
              spansIngested, bytesIngested, callerCtx>>

cacheVars == <<cache, nextStore, rwCall, rwCalls, rwRet, objects, written, rd, wr>>

hedgeVars == <<hedgeOp, hedgeAt, clock, attempts, requests, firstReturnedAt, hedgeRet,
               storeErr, callErr>>

bloomVars == <<bloomIDs, bloomMeta, bloomPc, bloomPos, blooms, bloomObjs, bloomFilters,
               bloomResult>>

lifeVars == <<strategy, subState, svcState, svcCtx, watcher, startingRet, runningRet,
              stoppingRet>>

cfgVars == <<cfg, ringDesc>>

moreVars == <<bloomVars, lifeVars, cfgVars>>

vars == <<findVars, blockVars, pushVars, cacheVars, hedgeVars, moreVars>>

(***************************************************************************)
(* Helpers.                                                                *)
(***************************************************************************)
Nil == <<>>

NoRecord == [id |-> 0, page |-> 0]

RECURSIVE Flatten(_)
Flatten(ss) == IF ss = <<>> THEN <<>> ELSE Head(ss) \o Flatten(Tail(ss))

IsSorted(s) == \A k \in 1..(Len(s) - 1) : s[k] <= s[k + 1]

(***************************************************************************)
(* The block read by the finder.  Objects are sorted by id over the whole  *)
(* data object; an id may repeat (ids are unique only after combining).    *)
(* The object at position k of page p is the one-fragment object           *)
(* <<10 * p + k>>, so every fragment of the block is distinguishable.      *)
(***************************************************************************)
IDs == 1..MaxID

IDSeqs(n) == { s \in [1..n -> IDs] : IsSorted(s) }

PageIDs == UNION { IDSeqs(n) : n \in 1..MaxPageObjs }

BlockIDs == UNION { { b \in [1..n -> PageIDs] : IsSorted(Flatten(b)) } : n \in 0..MaxPages }

MakePage(p, idSeq) == [k \in 1..Len(idSeq) |-> [id |-> idSeq[k], obj |-> <<10 * p + k>>]]

MakeBlock(b) == [p \in 1..Len(b) |-> MakePage(p, b[p])]

\* The index: one Record per page, carrying the id of the last object of the page.
RecordOf(pgs, p) == [id |-> pgs[p][Len(pgs[p])].id, page |-> p]

Index(pgs) == [p \in 1..Len(pgs) |-> RecordOf(pgs, p)]

\* index.At(i): the record at 0-based position i, nil past the end.
At(idx, i) == IF i >= 0 /\ i < Len(idx) THEN idx[i + 1] ELSE NoRecord

\* index.Find(id): binary search for the first record whose id is >= id.
IndexFindPos(idx, tid) ==
    IF \E k \in 1..Len(idx) : idx[k].id >= tid
    THEN (CHOOSE k \in 1..Len(idx) :
              /\ idx[k].id >= tid
              /\ \A j \in 1..(k - 1) : idx[j].id < tid) - 1
    ELSE Len(idx)

IndexFind(idx, tid) == At(idx, IndexFindPos(idx, tid))

\* ObjectCombiner.Combine: nil is the identity, otherwise the fragments of both.
Combine(a, b) == a \o b

\* NewIterator over a page: the (id, object) pairs in page order.
PageIterator(page) == page

\* NewDedupingIterator: consecutive objects of equal id are combined into one.
RECURSIVE DedupingIterator(_)
DedupingIterator(objs) ==
    IF Len(objs) <= 1 THEN objs
    ELSE LET rest == DedupingIterator(Tail(objs))
         IN  IF Head(objs).id = Head(rest).id
             THEN <<[id |-> Head(objs).id, obj |-> Combine(Head(objs).obj, Head(rest).obj)]>>
                      \o Tail(rest)
             ELSE <<Head(objs)>> \o rest

UseDedupingIteratorAlways(comb) == TRUE

\* findOne wraps the page iterator in a deduping iterator iff a combiner is set.
UseDedupingIterator(comb) == comb

\* The loop of findOne: the first object the iterator yields with the id, else nil.
RECURSIVE FirstMatch(_, _)
FirstMatch(iter, tid) ==
    IF iter = <<>> THEN Nil
    ELSE IF Head(iter).id = tid THEN Head(iter).obj
    ELSE FirstMatch(Tail(iter), tid)

findOne(pgs, comb, tid, rec) ==
    LET iter == IF UseDedupingIterator(comb)
                THEN DedupingIterator(PageIterator(pgs[rec.page]))
                ELSE PageIterator(pgs[rec.page])
    IN  FirstMatch(iter, tid)

NilRecordResultNotFound == [bytes |-> Nil, err |-> "notFound"]

\* What Find returns when index.Find yields no record.
NilRecordResult == [bytes |-> Nil, err |-> "none"]

ContinueScanAnyID(rec, tid) == rec # NoRecord

\* The loop continues with the next record iff it exists and carries the id.
ContinueScan(rec, tid) == rec # NoRecord /\ rec.id = tid

\* An error return that hands back what was combined so far.
ErrorReturnPartial(soFar, err) == [bytes |-> soFar, err |-> err]

\* return nil, err
ErrorReturn(soFar, err) == [bytes |-> Nil, err |-> err]

\* A loop that asks for the same position again.
nextIndexStuck(i) == i

\* i++
nextIndex(i) == i + 1

(***************************************************************************)
(* pagedFinder.Find, one action per call it makes.  The error Combine      *)
(* returns is dropped by Find; the bytes it returns are taken to be the    *)
(* combination whether or not it reports an error.                         *)
(***************************************************************************)
FindInit ==
    /\ \E b \in BlockIDs : blockPages = MakeBlock(b)
    /\ combinerSet \in BOOLEAN
    /\ findID \in IDs
    /\ findPc = "start"
    /\ record = NoRecord
    /\ recIdx = 0
    /\ bytesFound = Nil
    /\ findErr = "none"
    /\ pagesRead = <<>>
    /\ atCalls = <<>>
    /\ combineErr = FALSE

\* record, i, err := f.index.Find(ctx, id)
FindIndexFind ==
    /\ findPc = "start"
    /\ \E ok \in BOOLEAN :
         IF ~ok
         THEN /\ findPc' = "done"
              /\ findErr' = ErrorReturn(bytesFound, "indexFind").err
              /\ bytesFound' = ErrorReturn(bytesFound, "indexFind").bytes
              /\ UNCHANGED <<record, recIdx>>
         ELSE LET rec == IndexFind(Index(blockPages), findID)
              IN  /\ record' = rec
                  /\ recIdx' = IndexFindPos(Index(blockPages), findID)
                  /\ IF rec = NoRecord
                     THEN /\ findPc' = "done"
                          /\ bytesFound' = NilRecordResult.bytes
                          /\ findErr' = NilRecordResult.err
                     ELSE /\ findPc' = "findOne"
                          /\ UNCHANGED <<bytesFound, findErr>>
    /\ UNCHANGED <<blockPages, combinerSet, findID, pagesRead, atCalls, combineErr>>
    /\ UNCHANGED <<blockVars, pushVars, cacheVars, hedgeVars, moreVars>>

\* bytesOne, err := f.findOne(ctx, id, *record), then the combiner test.
FindFindOne ==
    /\ findPc = "findOne"
    /\ pagesRead' = Append(pagesRead, record.page)
    /\ \E outcome \in {"ok", "read", "zeroPages", "iter"} :
         IF outcome # "ok"
         THEN /\ findPc' = "done"
              /\ findErr' = ErrorReturn(bytesFound, outcome).err
              /\ bytesFound' = ErrorReturn(bytesFound, outcome).bytes
              /\ UNCHANGED <<recIdx, combineErr>>
         ELSE LET bytesOne == findOne(blockPages, combinerSet, findID, record)
              IN  IF ~combinerSet
                  THEN /\ bytesFound' = bytesOne
                       /\ findPc' = "done"
                       /\ UNCHANGED <<recIdx, findErr, combineErr>>
                  ELSE /\ bytesFound' = Combine(bytesFound, bytesOne)
                       /\ \E failed \in BOOLEAN : combineErr' = (combineErr \/ failed)
                       /\ recIdx' = nextIndex(recIdx)
                       /\ findPc' = "at"
                       /\ UNCHANGED findErr
    /\ UNCHANGED <<blockPages, combinerSet, findID, record, atCalls>>
    /\ UNCHANGED <<blockVars, pushVars, cacheVars, hedgeVars, moreVars>>

\* record, err = f.index.At(ctx, i), then the nil and id tests.
FindIndexAt ==
    /\ findPc = "at"
    /\ atCalls' = Append(atCalls, recIdx)
    /\ \E ok \in BOOLEAN :
         IF ~ok
         THEN /\ findPc' = "done"
              /\ findErr' = ErrorReturn(bytesFound, "indexAt").err
              /\ bytesFound' = ErrorReturn(bytesFound, "indexAt").bytes
              /\ UNCHANGED record
         ELSE LET rec == At(Index(blockPages), recIdx)
              IN  /\ record' = rec
                  /\ findPc' = IF ContinueScan(rec, findID) THEN "findOne" ELSE "done"
                  /\ UNCHANGED <<bytesFound, findErr>>
    /\ UNCHANGED <<blockPages, combinerSet, findID, recIdx, pagesRead, combineErr>>
    /\ UNCHANGED <<blockVars, pushVars, cacheVars, hedgeVars, moreVars>>


(***************************************************************************)
(* Block artifacts in a backend.  One block <tenant>/<blockID>/ is built   *)
(* in the "local" backend (appendBlockData, then writeBlockMeta) and       *)
(* copied to the "remote" backend by CopyBlock; the bloom regeneration     *)
(* command runs against either backend.                                    *)
(***************************************************************************)
Stores == {"local", "remote"}

nameObjects == <<"data", 0>>

nameIndex == <<"index", 0>>

nameBloomPrefix == "bloom-"

nameMeta == <<"meta.json", 0>>

\* bloomName(shard) = nameBloomPrefix + strconv.Itoa(shard)
bloomName(shard) == <<nameBloomPrefix, shard>>

\* common.ValidateShardCount for the positive shard counts blocks carry.
ValidateShardCount(n) == n

ObjectNames == {nameObjects, nameIndex, nameMeta} \cup { bloomName(k) : k \in 0..MaxShards }

BloomNames(n) == [k \in 1..n |-> bloomName(k - 1)]

WriteBlockOrderMetaFirst(n) == <<nameObjects, nameMeta, nameIndex>> \o BloomNames(n)

\* The writes of a block build: the data object (appendBlockData), then
\* writeBlockMeta: index, the bloom shards in ascending order, meta.
WriteBlockOrder(n) == <<nameObjects, nameIndex>> \o BloomNames(n) \o <<nameMeta>>

\* The writes of CopyBlock: data, the bloom shards, index, meta.
CopyBlockOrder(n) ==
    <<nameObjects>> \o BloomNames(ValidateShardCount(n)) \o <<nameIndex, nameMeta>>

\* Content written by the block build, and by the bloom regeneration.
Original == 1

Regenerated == 2

Present(s, name) == store[s][name] # 0

Put(s, name, content) ==
    /\ store' = [store EXCEPT ![s][name] = content]
    /\ nWrites' = [nWrites EXCEPT ![s][name] = @ + 1]

Logged(op, name, ok) == writeLog' = [writeLog EXCEPT ![op] = Append(@, [name |-> name, ok |-> ok])]

BlockInit ==
    /\ store = [s \in Stores |-> [n \in ObjectNames |-> 0]]
    /\ nWrites = [s \in Stores |-> [n \in ObjectNames |-> 0]]
    /\ writeLog = [op \in {"write", "copy"} |-> <<>>]
    /\ shardCount \in 1..MaxShards
    /\ wPos = 1
    /\ cPos = 0
    /\ cBuf = 0
    /\ cAttempts = 0
    /\ cResult = "none"
    /\ gPc = "idle"
    /\ gStore = "local"
    /\ gShard = 0
    /\ gResult = "none"

\* One step of the block build: w.Append of the data, then writeBlockMeta, which
\* marshals the bloom filter and calls w.Write for the index and for each shard
\* and w.WriteBlockMeta.  An error of a write ends the build; an error of
\* b.Marshal ends it before the write of the index is attempted.
WriteBlockStep ==
    /\ wPos \in 1..Len(WriteBlockOrder(shardCount))
    /\ LET name == WriteBlockOrder(shardCount)[wPos]
       IN  \E outcome \in {"written", "writeError", "marshalError"} :
             /\ outcome = "marshalError" => name = nameIndex
             /\ CASE outcome = "written" ->
                        /\ Logged("write", name, TRUE)
                        /\ Put("local", name, Original)
                        /\ wPos' = wPos + 1
                  [] outcome = "writeError" ->
                        /\ Logged("write", name, FALSE)
                        /\ wPos' = 0
                        /\ UNCHANGED <<store, nWrites>>
                  [] outcome = "marshalError" ->
                        /\ wPos' = 0
                        /\ UNCHANGED <<store, nWrites, writeLog>>
    /\ UNCHANGED <<shardCount, cPos, cBuf, cAttempts, cResult, gPc, gStore, gShard, gResult>>
    /\ UNCHANGED <<findVars, pushVars, cacheVars, hedgeVars, moreVars>>

\* A call of CopyBlock(meta, src = local, dest = remote): the caller read the meta
\* from the source.  CopyBlock looks at nothing of the destination before it
\* writes, so it may be called again after an error and after a success alike;
\* cAttempts only bounds the number of calls that are explored.
CopyBlockStart ==
    /\ cPos = 0
    /\ cAttempts < MaxCopyAttempts
    /\ Present("local", nameMeta)
    /\ cPos' = 1
    /\ cBuf' = 0
    /\ cAttempts' = cAttempts + 1
    /\ cResult' = "none"
    /\ writeLog' = [writeLog EXCEPT !["copy"] = <<>>]
    /\ UNCHANGED <<store, nWrites, shardCount, wPos, gPc, gStore, gShard, gResult>>
    /\ UNCHANGED <<findVars, pushVars, cacheVars, hedgeVars, moreVars>>

\* A copy that writes the content of a fresh build.
copyOfBuild(objs, name) == Original

\* copyStream and copy: what was read from src under the name goes to dest.
copy(objs, name) == objs[name]

\* The first half of copyStream / copy: src.StreamReader or src.Read of the object
\* at cPos.  An error ends CopyBlock; the meta is not read, the caller gave it.
CopyBlockRead ==
    /\ cPos \in 1..Len(CopyBlockOrder(shardCount))
    /\ cBuf = 0
    /\ CopyBlockOrder(shardCount)[cPos] # nameMeta
    /\ LET name == CopyBlockOrder(shardCount)[cPos]
       IN  \E ok \in BOOLEAN :
             IF ok /\ Present("local", name)
             THEN /\ cBuf' = copy(store["local"], name)
                  /\ UNCHANGED <<cPos, cResult>>
             ELSE /\ cBuf' = 0
                  /\ cPos' = 0
                  /\ cResult' = "error"
    /\ UNCHANGED <<store, nWrites, writeLog, shardCount, wPos, cAttempts, gPc, gStore, gShard, gResult>>
    /\ UNCHANGED <<findVars, pushVars, cacheVars, hedgeVars, moreVars>>

\* The second half: dest.StreamWriter or dest.Write of what was read, and for the
\* last position dest.WriteBlockMeta of the given meta.
CopyBlockWrite ==
    /\ cPos \in 1..Len(CopyBlockOrder(shardCount))
    /\ cBuf # 0 \/ CopyBlockOrder(shardCount)[cPos] = nameMeta
    /\ LET name == CopyBlockOrder(shardCount)[cPos]
           last == cPos = Len(CopyBlockOrder(shardCount))
       IN  \E ok \in BOOLEAN :
             /\ Logged("copy", name, ok)
             /\ IF ok
                THEN /\ Put("remote", name, IF name = nameMeta THEN Original ELSE cBuf)
                     /\ cPos' = IF last THEN 0 ELSE cPos + 1
                     /\ cResult' = IF last THEN "ok" ELSE cResult
                ELSE /\ cPos' = 0
                     /\ cResult' = "error"
                     /\ UNCHANGED <<store, nWrites>>
    /\ cBuf' = 0
    /\ UNCHANGED <<shardCount, wPos, cAttempts, gPc, gStore, gShard, gResult>>
    /\ UNCHANGED <<findVars, pushVars, cacheVars, hedgeVars, moreVars>>

\* bloomCmd.Run up to the replay: r.BlockMeta reads the meta of the block in the
\* chosen backend, NewBloom sizes the filter and its shard count is compared with
\* the meta's.
GenBloomMeta ==
    /\ gPc = "idle"
    /\ \E s \in Stores, genShards \in 1..MaxShards, ok \in BOOLEAN :
         /\ gStore' = s
         /\ IF Present(s, nameMeta) /\ ok /\ genShards = shardCount
            THEN gPc' = "replay" /\ gResult' = "none"
            ELSE gPc' = "done" /\ gResult' = "error"
    /\ UNCHANGED gShard
    /\ UNCHANGED <<store, nWrites, writeLog, shardCount, wPos, cPos, cBuf, cAttempts, cResult>>
    /\ UNCHANGED <<findVars, pushVars, cacheVars, hedgeVars, moreVars>>

\* ReplayBlockAndDoForEachRecord reads the data file and adds every id to the
\* filter; bloom.Marshal follows.  An error of either ends the command.
GenBloomReplay ==
    /\ gPc = "replay"
    /\ \E ok \in BOOLEAN :
         IF Present(gStore, nameObjects) /\ ok
         THEN gPc' = "write" /\ gShard' = 0 /\ UNCHANGED gResult
         ELSE gPc' = "done" /\ gResult' = "error" /\ UNCHANGED gShard
    /\ UNCHANGED <<store, nWrites, writeLog, shardCount, wPos, cPos, cBuf, cAttempts, cResult, gStore>>
    /\ UNCHANGED <<findVars, pushVars, cacheVars, hedgeVars, moreVars>>

\* One iteration of the loop writing bloomBytes[i] to the backend.
GenBloomWrite ==
    /\ gPc = "write"
    /\ IF gShard < shardCount
       THEN \E ok \in BOOLEAN :
              IF ok
              THEN /\ Put(gStore, bloomName(gShard), Regenerated)
                   /\ gShard' = gShard + 1
                   /\ UNCHANGED <<gPc, gResult>>
              ELSE /\ gPc' = "done"
                   /\ gResult' = "error"
                   /\ UNCHANGED <<store, nWrites, gShard>>
       ELSE /\ gPc' = "verify"
            /\ gShard' = 0
            /\ UNCHANGED <<store, nWrites, gResult>>
    /\ UNCHANGED <<writeLog, shardCount, wPos, cPos, cBuf, cAttempts, cResult, gStore>>
    /\ UNCHANGED <<findVars, pushVars, cacheVars, hedgeVars, moreVars>>

\* One iteration of the loop that reads the shards back: r.Read of bloom-i and
\* ReadFrom of its bytes.  When either fails the command prints and returns nil.
GenBloomReadBack ==
    /\ gPc = "verify"
    /\ IF gShard < shardCount
       THEN \E outcome \in {"read", "readError", "parseError"} :
              IF outcome = "read" /\ Present(gStore, bloomName(gShard))
              THEN /\ gShard' = gShard + 1
                   /\ UNCHANGED <<gPc, gResult>>
              ELSE /\ gPc' = "done"
                   /\ gResult' = "ok"
                   /\ UNCHANGED gShard
       ELSE /\ gPc' = "test"
            /\ UNCHANGED <<gShard, gResult>>
    /\ UNCHANGED <<store, nWrites, writeLog, shardCount, wPos, cPos, cBuf, cAttempts, cResult, gStore>>
    /\ UNCHANGED <<findVars, pushVars, cacheVars, hedgeVars, moreVars>>

\* The second replay of the data file, which tests every id against the shards
\* read back; its error is returned.
GenBloomVerify ==
    /\ gPc = "test"
    /\ \E outcome \in {"verified", "replayError"} :
         /\ gPc' = "done"
         /\ gResult' = IF outcome = "replayError" \/ ~Present(gStore, nameObjects)
                        THEN "error" ELSE "ok"
    /\ UNCHANGED <<store, nWrites, writeLog, shardCount, wPos, cPos, cBuf, cAttempts, cResult, gStore, gShard>>
    /\ UNCHANGED <<findVars, pushVars, cacheVars, hedgeVars, moreVars>>

NextBlock ==
    \/ WriteBlockStep
    \/ CopyBlockStart
    \/ CopyBlockRead
    \/ CopyBlockWrite
    \/ GenBloomMeta
    \/ GenBloomReplay
    \/ GenBloomWrite
    \/ GenBloomReadBack
    \/ GenBloomVerify


(***************************************************************************)
(* The distributor.  Byte strings are sequences of 0..255; a 32-bit hash   *)
(* is the pair <<high 16 bits, low 16 bits>>.                              *)
(***************************************************************************)
RECURSIVE XorBits(_, _, _)
XorBits(a, b, n) ==
    IF n = 0 THEN 0
    ELSE (((a % 2) + (b % 2)) % 2) + 2 * XorBits(a \div 2, b \div 2, n - 1)

\* The FNV offset basis 2166136261 = 0x811C9DC5.
offset32 == <<33052, 40389>>

\* h * 16777619 mod 2^32, with the FNV prime 16777619 = 2^24 + 403.
MulPrime32(h) ==
    LET lo == h[2] * 403
        hi == h[1] * 403 + (lo \div 65536) + (h[2] % 256) * 256
    IN  <<hi % 65536, lo % 65536>>

\* One FNV-1a step: h = (h XOR b) * prime32.
AddByte32(h, b) == MulPrime32(<<h[1], (h[2] \div 256) * 256 + XorBits(h[2] % 256, b, 8)>>)

\* fnv1a.AddString32(h, s): continues the hash h over the bytes of s.
RECURSIVE AddBytesFrom(_, _, _)
AddBytesFrom(h, str, n) ==
    IF n > Len(str) THEN h
    ELSE CHOOSE r \in { AddBytesFrom(next, str, n + 1) : next \in {AddByte32(h, str[n])} } : TRUE

AddString32(h, str) == AddBytesFrom(h, str, 1)

\* util.TokenFor(userID, traceID) = FNV1a(tenantID || traceID).
TokenFor(user, b) == AddString32(AddString32(offset32, user), b)

\* validation.ValidTraceID: a trace id is 16 bytes long.
ValidTraceID(traceID) == Len(traceID) = 16

NoTenant == <<>>

\* The tenant "a".
TenantA == <<97>>

\* Another tenant, "b", of the same distributor.
TenantB == <<98>>

\* The tenants the rate limiter keeps a bucket for.
Tenants == {TenantA, TenantB}

\* Trace ids: TraceID1 and TraceID2 have the same token for tenant "a"; the tokens
\* of TraceID3 and TraceID4 differ in bit 1 only; ShortTraceID is 8 bytes long.
TraceID1 == <<1, 2, 3, 4, 5, 6, 7, 8, 27, 114, 116, 152, 31, 104, 119, 171>>

TraceID2 == <<1, 2, 3, 4, 5, 6, 7, 8, 191, 48, 42, 250, 235, 112, 211, 129>>

TraceID3 == <<16, 17, 18, 19, 20, 21, 22, 23, 34, 109, 133, 108, 82, 214, 118, 93>>

TraceID4 == <<16, 17, 18, 19, 20, 21, 22, 23, 100, 70, 119, 219, 60, 188, 62, 191>>

ShortTraceID == <<1, 2, 3, 4, 5, 6, 7, 8>>

TraceIDs == {TraceID1, TraceID2, TraceID3, TraceID4, ShortTraceID}

\* Instrumentation libraries: none, ("ab", "c"), ("a", "bc"), ("a", ""), ("c", "").
NilLib == [isNil |-> TRUE, name |-> <<>>, version |-> <<>>]

LibAbC == [isNil |-> FALSE, name |-> <<97, 98>>, version |-> <<99>>]

LibABc == [isNil |-> FALSE, name |-> <<97>>, version |-> <<98, 99>>]

LibA == [isNil |-> FALSE, name |-> <<97>>, version |-> <<>>]

LibC == [isNil |-> FALSE, name |-> <<99>>, version |-> <<>>]

Libs == {NilLib, LibAbC, LibABc, LibA, LibC}

\* A batch: a Resource and a list of InstrumentationLibrarySpans.  The span at
\* position k of the ILS at position n has span id 10 * n + k.
NilBatch == [isNil |-> TRUE, resource |-> "", ils |-> <<>>]

TraceIDSeqs(tids, maxSpans) == UNION { [1..n -> tids] : n \in 0..maxSpans }

MakeILS(n, lib, tids) ==
    [lib |-> lib, spans |-> [k \in 1..Len(tids) |-> [traceId |-> tids[k], spanId |-> 10 * n + k]]]

MakeBatch(choice) ==
    [isNil |-> FALSE, resource |-> "resource",
     ils |-> [n \in 1..Len(choice) |-> MakeILS(n, choice[n][1], choice[n][2])]]

Batches(libs, tids, maxILS, maxSpans) ==
    { MakeBatch(c) : c \in UNION { [1..n -> libs \X TraceIDSeqs(tids, maxSpans)] : n \in 0..maxILS } }

\* The spans of the batch in the order the two loops visit them.
RECURSIVE FlatSpans(_, _)
FlatSpans(batch, n) ==
    IF n > Len(batch.ils) THEN <<>>
    ELSE [k \in 1..Len(batch.ils[n].spans) |-> [ils |-> n, span |-> batch.ils[n].spans[k]]]
             \o FlatSpans(batch, n + 1)

EmptyMap == <<>>

\* The key of spansByILS: the trace key, extended by the library's name and version.
ILSKey(traceKey, lib) ==
    IF lib.isNil THEN traceKey
    ELSE AddString32(AddString32(traceKey, lib.name), lib.version)

\* The hashes of the ids and libraries of the model, computed once.
TokenTable == [t \in { x \in TraceIDs : ValidTraceID(x) } |-> TokenFor(TenantA, t)]

ILSKeyTable ==
    [k \in { TokenTable[t] : t \in DOMAIN TokenTable } |-> [lib \in Libs |-> ILSKey(k, lib)]]

TraceKeyIgnoresTenant(user, traceID) == TokenFor(NoTenant, traceID)

\* traceKey := util.TokenFor(userID, traceID), the key of tracesByID and of the ring.
TraceKey(user, traceID) ==
    IF user = TenantA /\ traceID \in DOMAIN TokenTable
    THEN TokenTable[traceID] ELSE TokenFor(user, traceID)

\* ilsKey, from traceKey and ils.InstrumentationLibrary.
SpanILSKey(traceKey, lib) ==
    IF traceKey \in DOMAIN ILSKeyTable /\ lib \in Libs
    THEN ILSKeyTable[traceKey][lib] ELSE ILSKey(traceKey, lib)

invalidSpanNever(traceID) == FALSE

\* if !validation.ValidTraceID(traceID): the span is rejected.
invalidSpan(traceID) == ~ValidTraceID(traceID)

\* The body of the span loop of requestsByTraceID.  spansByILS maps an ILS key to
\* the ILS; a trace holds its Batches as the ILS keys they point to.
SpanStep(batch, user, st, e) ==
    LET traceID  == e.span.traceId
        lib      == batch.ils[e.ils].lib
        traceKey == TraceKey(user, traceID)
        ilsKey   == SpanILSKey(traceKey, lib)
        ok       == ilsKey \in DOMAIN st.spansByILS
        existingILS == IF ok THEN st.spansByILS[ilsKey] ELSE [lib |-> lib, spans |-> <<>>]
        newILS   == (ilsKey :> [existingILS EXCEPT !.spans = Append(@, e.span)]) @@ st.spansByILS
        okTrace  == traceKey \in DOMAIN st.tracesByID
        existingTrace == IF okTrace THEN st.tracesByID[traceKey]
                         ELSE [id |-> traceID, batches |-> <<>>]
    IN  IF invalidSpan(traceID) THEN [st EXCEPT !.err = "InvalidArgument"]
        ELSE IF ok THEN [st EXCEPT !.spansByILS = newILS]
        ELSE [st EXCEPT !.spansByILS = newILS,
                        !.tracesByID = (traceKey :> [existingTrace EXCEPT !.batches = Append(@, ilsKey)])
                                           @@ st.tracesByID]

RECURSIVE SpanLoop(_, _, _, _)
SpanLoop(batch, user, st, todo) ==
    IF todo = <<>> \/ st.err # "none" THEN st
    ELSE CHOOSE r \in { SpanLoop(batch, user, next, Tail(todo)) :
                            next \in {SpanStep(batch, user, st, Head(todo))} } : TRUE

\* requestsByTraceID up to the final loop over tracesByID: the error, and the map
\* from trace key to [id, trace], the trace being its list of ResourceSpans.
TracesOf(batch, st) ==
    [err |-> st.err,
     tracesByID |->
         IF st.err # "none" THEN EmptyMap
         ELSE [k \in DOMAIN st.tracesByID |->
                  [id |-> st.tracesByID[k].id,
                   trace |-> [b \in 1..Len(st.tracesByID[k].batches) |->
                                 [resource |-> batch.resource,
                                  ils |-> <<st.spansByILS[st.tracesByID[k].batches[b]]>>]]]]]

requestsByTraceID(batch, user) ==
    CHOOSE r \in { TracesOf(batch, st) :
                     st \in {SpanLoop(batch, user,
                                      [err |-> "none", spansByILS |-> EmptyMap, tracesByID |-> EmptyMap],
                                      FlatSpans(batch, 1))} } : TRUE

\* The orders in which the final loop may range over the map tracesByID.
MapOrders(m) ==
    { o \in [1..Cardinality(DOMAIN m) -> DOMAIN m] : \A a, b \in DOMAIN o : a # b => o[a] # o[b] }

\* The ingesters of the ring and the PushBytes requests they are sent.
Ingesters == 1..NumIngesters

NoContext == [parent |-> "none", timeout |-> "none", orgID |-> NoTenant]

NoRequest == [Traces |-> <<>>, Ids |-> <<>>, SearchData |-> <<>>, sent |-> FALSE, calls |-> 0,
              ctx |-> NoContext]

Reasons == {"rate_limited", "trace_too_large", "live_traces_exceeded", "internal_error"}

PushInit(tenants, batches) ==
    /\ userID \in tenants
    /\ req \in batches
    /\ pushPc = "start"
    /\ pushErr = "none"
    /\ keys = <<>>
    /\ traces = <<>>
    /\ ids = <<>>
    /\ searchEnabled \in BOOLEAN
    /\ rateTokens \in { [t \in Tenants |-> IF t = TenantA THEN n ELSE MaxBudget] : n \in {1, MaxBudget} }
    /\ limiter = "notAsked"
    /\ fanOut = FALSE
    /\ rpc = [g \in Ingesters |-> "idle"]
    /\ accepted = [g \in Ingesters |-> FALSE]
    /\ rpcReq = [g \in Ingesters |-> NoRequest]
    /\ batchResult = "pending"
    /\ discardedSpans = [r \in Reasons |-> 0]
    /\ spansIngested = 0
    /\ bytesIngested = 0
    /\ callerCtx = "live"

RegroupInitOf(tenants, batches) ==
    /\ userID \in tenants
    /\ req \in batches
    /\ pushPc = "start"
    /\ pushErr = "none"
    /\ keys = <<>>
    /\ traces = <<>>
    /\ ids = <<>>
    /\ searchEnabled = FALSE
    /\ rateTokens = [t \in Tenants |-> MaxBudget]
    /\ limiter = "notAsked"
    /\ fanOut = FALSE
    /\ rpc = [g \in Ingesters |-> "idle"]
    /\ accepted = [g \in Ingesters |-> FALSE]
    /\ rpcReq = [g \in Ingesters |-> NoRequest]
    /\ batchResult = "pending"
    /\ discardedSpans = [r \in Reasons |-> 0]
    /\ spansIngested = 0
    /\ bytesIngested = 0
    /\ callerCtx = "live"

RegroupInit == RegroupInitOf({TenantA}, Batches(Libs, TraceIDs, MaxILS, MaxSpans))

\* The requests of the sharding specification: two tenants, ILS of one span.
ShardInit ==
    RegroupInitOf(Tenants, Batches({NilLib, LibA, LibC}, {TraceID1, TraceID2, TraceID3, TraceID4}, MaxILS, 1))

PushIdle ==
    /\ userID = NoTenant
    /\ req = NilBatch
    /\ pushPc = "done"
    /\ pushErr = "none"
    /\ keys = <<>>
    /\ traces = <<>>
    /\ ids = <<>>
    /\ searchEnabled = FALSE
    /\ rateTokens = [t \in Tenants |-> MaxBudget]
    /\ limiter = "notAsked"
    /\ fanOut = FALSE
    /\ rpc = [g \in Ingesters |-> "idle"]
    /\ accepted = [g \in Ingesters |-> FALSE]
    /\ rpcReq = [g \in Ingesters |-> NoRequest]
    /\ batchResult = "pending"
    /\ discardedSpans = [r \in Reasons |-> 0]
    /\ spansIngested = 0
    /\ bytesIngested = 0
    /\ callerCtx = "live"

\* A call of requestsByTraceID(req, userID, spanCount).
Regroup ==
    /\ pushPc = "start"
    /\ \E r \in {requestsByTraceID(req, userID)} :
           /\ pushErr' = r.err
           /\ \E o \in MapOrders(r.tracesByID) :
                /\ keys' = o
                /\ traces' = [n \in DOMAIN o |-> r.tracesByID[o[n]].trace]
                /\ ids' = [n \in DOMAIN o |-> r.tracesByID[o[n]].id]
    /\ pushPc' = "regrouped"
    /\ UNCHANGED <<userID, req, searchEnabled, rateTokens, limiter, fanOut, rpc, accepted,
                   rpcReq, batchResult, discardedSpans, spansIngested, bytesIngested, callerCtx>>
    /\ UNCHANGED <<findVars, blockVars, cacheVars, hedgeVars, moreVars>>


(***************************************************************************)
(* Distributor.Push and the fan-out of sendToIngestersViaBytes.            *)
(***************************************************************************)
\* req.Size(): one unit for the batch, one per ILS and one per span.
ReqSize(batch) == IF batch.isNil THEN 0 ELSE 1 + Len(batch.ils) + Len(FlatSpans(batch, 1))

\* spanCount: the sum of len(ils.Spans) over the batch.
SpanCount(batch) == Len(FlatSpans(batch, 1))

\* ingestionRateLimiter.AllowN(now, userID, n): the bucket of the tenant holds at
\* least n.  The call takes n from that bucket when it allows, nothing otherwise.
AllowN(buckets, user, n) == n <= buckets[user]

TakeN(buckets, user, n) == [buckets EXCEPT ![user] = @ - n]

deniedReasonInternalError == "internal_error"

\* reasonRateLimited, the reason charged when the limiter denies.
deniedReason == "rate_limited"

\* The ring: ingester g owns the token g * 2^32 / NumIngesters; a key is owned by
\* the first ingester whose token is above it, and replicated on the next ones.
IngesterToken(g) == (g * 65536) \div NumIngesters

FirstOwner(key) ==
    IF \A g \in Ingesters : key[1] >= IngesterToken(g) THEN 1
    ELSE CHOOSE g \in Ingesters :
             /\ key[1] < IngesterToken(g)
             /\ \A j \in 1..(g - 1) : key[1] >= IngesterToken(j)

ringOpAlwaysWrite(extendWrites) == "Write"

\* sendToIngestersViaBytes: op is ring.WriteNoExtend, and ring.Write when
\* d.cfg.ExtendWrites is set.
ringOp(extendWrites) == IF extendWrites THEN "Write" ELSE "WriteNoExtend"

\* The states of an instance a write is sent to under either operation.
WriteStates == {"ACTIVE", "LEAVING"}

\* The extending operation is Write; WriteNoExtend, as its name says, is not.
Extends(op) == op = "Write"

\* ring.Get(key, op): walking clockwise from the owner of the key, the first
\* ReplicationFactor instances that are ACTIVE or LEAVING; under an extending
\* operation a JOINING instance met on the way is accepted in addition, as a spare.
\* Walk visits the instances from g on, at most `steps` of them, until `need`
\* instances that count as replicas are found.
RECURSIVE Walk(_, _, _, _, _)
Walk(g, steps, need, op, desc) ==
    IF steps = 0 \/ need = 0 THEN {}
    ELSE IF desc[g] \in WriteStates
         THEN {g} \cup Walk((g % NumIngesters) + 1, steps - 1, need - 1, op, desc)
    ELSE IF Extends(op) /\ desc[g] = "JOINING"
         THEN {g} \cup Walk((g % NumIngesters) + 1, steps - 1, need, op, desc)
    ELSE Walk((g % NumIngesters) + 1, steps - 1, need, op, desc)

Get(key, op, desc) == Walk(FirstOwner(key), NumIngesters, ReplicationFactor, op, desc)

\* The replica set DoBatch gets for a key: one operation for every key of a Push.
ReplicaSet(key) == Get(key, ringOp(cfg.ExtendWrites), ringDesc)

\* DoBatch: a key succeeds with MinSuccess successful replicas and fails with more
\* than MaxFailures failed ones.
MinSuccess == (ReplicationFactor \div 2) + 1

MaxFailures(key) == Cardinality(ReplicaSet(key)) - MinSuccess

\* DoBatch: the indexes of the keys handed to ingester g, in ascending order.
RECURSIVE IndexesFrom(_, _, _)
IndexesFrom(ks, g, n) ==
    IF n > Len(ks) THEN <<>>
    ELSE (IF g \in ReplicaSet(ks[n]) THEN <<n>> ELSE <<>>) \o IndexesFrom(ks, g, n + 1)

Indexes(ks, g) == IndexesFrom(ks, g, 1)

\* extractSearchDataAll(traces, ids): opaque bytes per trace.
extractSearchDataAll(trs, tids) == [n \in 1..Len(trs) |-> <<"search", tids[n]>>]

localCtxOfCaller == [parent |-> "caller", timeout |-> "RemoteTimeout", orgID |-> userID]

\* localCtx: context.Background() with the timeout d.clientCfg.RemoteTimeout, and
\* the tenant id injected.
localCtx == [parent |-> "background", timeout |-> "RemoteTimeout", orgID |-> userID]

\* t.Marshal(): the bytes of a trace, opaque.
Marshal(t) == <<"marshalled", t>>

PushBytesRequestIdsByPosition(indexes, searchData) ==
    [Traces |-> [n \in 1..Len(indexes) |-> Marshal(traces[indexes[n]])],
     Ids |-> [n \in 1..Len(indexes) |-> ids[n]],
     SearchData |-> [n \in 1..Len(indexes) |->
                        IF Len(searchData) >= indexes[n] THEN searchData[indexes[n]] ELSE <<>>],
     sent |-> TRUE, calls |-> 1, ctx |-> localCtx]

\* The PushBytesRequest the callback builds for the given indexes (indexes are
\* positions from 1 here, so `len(searchData) > j` reads Len(searchData) >= j).
PushBytesRequest(indexes, searchData) ==
    [Traces |-> [n \in 1..Len(indexes) |-> Marshal(traces[indexes[n]])],
     Ids |-> [n \in 1..Len(indexes) |-> ids[indexes[n]]],
     SearchData |-> [n \in 1..Len(indexes) |->
                        IF Len(searchData) >= indexes[n] THEN searchData[indexes[n]] ELSE <<>>],
     sent |-> TRUE, calls |-> 1, ctx |-> localCtx]

callbackErrIgnoresClientError(outcome) == IF outcome \in {"ok", "noClient"} THEN "none" ELSE outcome

\* What the callback returns: the error of GetClientFor or of PushBytes, else nil.
callbackErr(outcome) == IF outcome = "ok" THEN "none" ELSE outcome

\* How PushBytes can end: accepted, refused by the ingester, or cut by the timeout
\* of its context.
RPCOutcomes == {"ok", "LIVE_TRACES_EXCEEDED", "TRACE_TOO_LARGE", "DeadlineExceeded"}

Succeeded(key, r) == Cardinality({ g \in ReplicaSet(key) : r[g] = "none" })

Failed(key, r) == Cardinality({ g \in ReplicaSet(key) : r[g] \notin {"idle", "pending", "inflight", "none"} })

\* status.Convert(err).Message(): the message of each error of the model, as a
\* sequence of words.  The message of "noClient" names the prefixes, but not first.
Message(err) ==
    IF err = "LIVE_TRACES_EXCEEDED" THEN <<"LIVE_TRACES_EXCEEDED:", "max live traces per tenant exceeded">>
    ELSE IF err = "TRACE_TOO_LARGE" THEN <<"TRACE_TOO_LARGE:", "max size of trace exceeded">>
    ELSE IF err = "noClient" THEN <<"no client for", "TRACE_TOO_LARGE:", "LIVE_TRACES_EXCEEDED:">>
    ELSE IF err = "DeadlineExceeded" THEN <<"context deadline exceeded">>
    ELSE IF err = "Canceled" THEN <<"context canceled">>
    ELSE <<"failed to marshal PushRequest">>

\* overrides.ErrorPrefixLiveTracesExceeded and overrides.ErrorPrefixTraceTooLarge.
ErrorPrefixLiveTracesExceeded == <<"LIVE_TRACES_EXCEEDED:">>

ErrorPrefixTraceTooLarge == <<"TRACE_TOO_LARGE:">>

\* strings.HasPrefix
HasPrefix(str, prefix) == Len(str) >= Len(prefix) /\ SubSeq(str, 1, Len(prefix)) = prefix

ReasonOfAlwaysInternalError(err) == "internal_error"

\* recordDiscaredSpans: the reason charged for an error, by the prefix of its message.
ReasonOf(err) ==
    IF HasPrefix(Message(err), ErrorPrefixLiveTracesExceeded) THEN "live_traces_exceeded"
    ELSE IF HasPrefix(Message(err), ErrorPrefixTraceTooLarge) THEN "trace_too_large"
    ELSE "internal_error"

DiscardOne(d, reason, n) == [d EXCEPT ![reason] = @ + 1]

\* metricDiscardedSpans.WithLabelValues(reason, userID).Add(float64(spanCount))
Discard(d, reason, n) == [d EXCEPT ![reason] = @ + n]

\* logTraces(batch) ranges over batch.InstrumentationLibrarySpans, a field read
\* through the pointer: it panics on a nil batch and only logs otherwise.
logTracesPanics(batch) == batch.isNil

rejectionValidatesFirst(allowed, err) ==
    IF err # "none" THEN "invalid" ELSE IF ~allowed THEN "limited" ELSE "none"

\* The order of the two checks of Push: the answer of the rate limiter is looked at
\* first, the error of requestsByTraceID only for an admitted request.
rejection(allowed, err) ==
    IF ~allowed THEN "limited" ELSE IF err # "none" THEN "invalid" ELSE "none"

untenantedAfterMeasuring(base, size) == [base EXCEPT !.err = "Unauthenticated", !.bytesIngested = size]

\* user.ExtractOrgID fails: Push returns its error, before measuring the request.
untenanted(base, size) == [base EXCEPT !.err = "Unauthenticated"]

\* Push up to the call of ring.DoBatch, as the values it leaves behind.  `r` is the
\* result of requestsByTraceID before its final loop, `order` the order of that
\* loop, `marshalOk` the result of marshalling the traces.
PushPrelude(r, order, marshalOk) ==
    LET spanCount == SpanCount(req)
        size      == ReqSize(req)
        ks        == order
        base      == [pc |-> "done", err |-> "none", keys |-> <<>>, traces |-> <<>>, ids |-> <<>>,
                      rateTokens |-> rateTokens, limiter |-> "notAsked", fanOut |-> FALSE,
                      rpc |-> rpc, discardedSpans |-> discardedSpans,
                      spansIngested |-> 0, bytesIngested |-> 0]
        counted   == [base EXCEPT !.bytesIngested = size]
        limited   == [counted EXCEPT !.spansIngested = spanCount]
        admitted  == [limited EXCEPT !.limiter = "allowed", !.rateTokens = TakeN(rateTokens, userID, size)]
        grouped   == [admitted EXCEPT !.keys = ks,
                                      !.traces = [n \in DOMAIN ks |-> r.tracesByID[ks[n]].trace],
                                      !.ids = [n \in DOMAIN ks |-> r.tracesByID[ks[n]].id]]
    IN  IF userID = NoTenant THEN untenanted(base, size)
        ELSE IF cfg.LogReceivedTraces /\ logTracesPanics(req) THEN [base EXCEPT !.pc = "panicked"]
        ELSE IF req.isNil \/ spanCount = 0 THEN counted
        ELSE IF rejection(AllowN(rateTokens, userID, size), r.err) = "limited"
             THEN [limited EXCEPT !.limiter = "denied", !.err = "ResourceExhausted",
                                  !.discardedSpans = Discard(discardedSpans, deniedReason, spanCount)]
        ELSE IF rejection(AllowN(rateTokens, userID, size), r.err) = "invalid"
             THEN [admitted EXCEPT !.err = r.err,
                                   !.discardedSpans = Discard(discardedSpans, "internal_error", spanCount)]
        ELSE IF ~marshalOk
             THEN [grouped EXCEPT !.err = "marshal",
                                  !.discardedSpans = Discard(discardedSpans, ReasonOf("marshal"), spanCount)]
        ELSE [grouped EXCEPT !.pc = "fanout", !.fanOut = TRUE,
                             !.rpc = [g \in Ingesters |->
                                         IF Indexes(ks, g) # <<>> THEN "pending" ELSE "idle"]]

PushStart ==
    /\ pushPc = "start"
    /\ \E r \in {requestsByTraceID(req, userID)} :
       \E order \in MapOrders(r.tracesByID), marshalOk \in BOOLEAN :
       \E n \in {PushPrelude(r, order, marshalOk)} :
             /\ pushPc' = n.pc
             /\ pushErr' = n.err
             /\ keys' = n.keys
             /\ traces' = n.traces
             /\ ids' = n.ids
             /\ rateTokens' = n.rateTokens
             /\ limiter' = n.limiter
             /\ fanOut' = n.fanOut
             /\ rpc' = n.rpc
             /\ discardedSpans' = n.discardedSpans
             /\ spansIngested' = n.spansIngested
             /\ bytesIngested' = n.bytesIngested
    /\ UNCHANGED <<userID, req, searchEnabled, accepted, rpcReq, batchResult, callerCtx>>
    /\ UNCHANGED <<findVars, blockVars, cacheVars, hedgeVars, moreVars>>

\* tracker.record(err) for the callback of ingester g: the result of DoBatch, once
\* a key has more failures than it tolerates or every key has enough successes.
TrackerRecord(result, r, g, err) ==
    IF result # "pending" THEN result
    ELSE IF err # "none"
         THEN (IF \E j \in 1..Len(keys) :
                      g \in ReplicaSet(keys[j]) /\ Failed(keys[j], r) > MaxFailures(keys[j])
               THEN err ELSE "pending")
    ELSE IF \A j \in 1..Len(keys) : Succeeded(keys[j], r) >= MinSuccess
         THEN "none" ELSE "pending"

\* The callback of DoBatch for ingester g up to its call of PushBytes: it builds the
\* request and asks the pool for a client; without client it returns the error.
IngesterRPC(g) ==
    /\ rpc[g] = "pending"
    /\ \E client \in BOOLEAN :
         LET indexes    == Indexes(keys, g)
             searchData == IF searchEnabled THEN extractSearchDataAll(traces, ids) ELSE <<>>
             r          == [rpc EXCEPT ![g] = IF client THEN "inflight" ELSE callbackErr("noClient")]
         IN  /\ rpc' = r
             /\ rpcReq' = IF client
                          THEN [rpcReq EXCEPT ![g] = [PushBytesRequest(indexes, searchData)
                                                         EXCEPT !.calls = rpcReq[g].calls + 1]]
                          ELSE rpcReq
             /\ batchResult' = IF client THEN batchResult
                               ELSE TrackerRecord(batchResult, r, g, r[g])
    /\ UNCHANGED <<userID, req, pushPc, pushErr, keys, traces, ids, searchEnabled, rateTokens,
                   limiter, fanOut, accepted, discardedSpans, spansIngested, bytesIngested, callerCtx>>
    /\ UNCHANGED <<findVars, blockVars, cacheVars, hedgeVars, moreVars>>

\* PushBytes of ingester g returns, the callback returns its error, and
\* tracker.record takes the result.
PushBytesReturns(g) ==
    /\ rpc[g] = "inflight"
    /\ \E outcome \in RPCOutcomes :
         LET r == [rpc EXCEPT ![g] = callbackErr(outcome)]
         IN  /\ rpc' = r
             /\ accepted' = [accepted EXCEPT ![g] = (outcome = "ok")]
             /\ batchResult' = TrackerRecord(batchResult, r, g, r[g])
    /\ UNCHANGED <<userID, req, pushPc, pushErr, keys, traces, ids, searchEnabled, rateTokens,
                   limiter, fanOut, rpcReq, discardedSpans, spansIngested, bytesIngested, callerCtx>>
    /\ UNCHANGED <<findVars, blockVars, cacheVars, hedgeVars, moreVars>>

\* The caller of Push cancels its context: every context derived from it is
\* cancelled, and a PushBytes in flight under such a context ends with Canceled.
CancelCaller ==
    /\ callerCtx = "live"
    /\ pushPc \in {"fanout", "done"}
    /\ fanOut
    /\ callerCtx' = "cancelled"
    /\ LET r == [g \in Ingesters |->
                    IF rpc[g] = "inflight" /\ rpcReq[g].ctx.parent = "caller"
                    THEN "Canceled" ELSE rpc[g]]
       IN  /\ rpc' = r
           /\ batchResult' = IF r = rpc \/ batchResult # "pending" THEN batchResult ELSE "Canceled"
    /\ UNCHANGED <<userID, req, pushPc, pushErr, keys, traces, ids, searchEnabled, rateTokens,
                   limiter, fanOut, accepted, rpcReq, discardedSpans, spansIngested, bytesIngested>>
    /\ UNCHANGED <<findVars, blockVars, cacheVars, hedgeVars, moreVars>>

\* DoBatch returns; Push records the discarded spans of an error and returns it.
PushReturn ==
    /\ pushPc = "fanout"
    /\ batchResult # "pending"
    /\ pushErr' = batchResult
    /\ discardedSpans' = IF batchResult = "none" THEN discardedSpans
                         ELSE Discard(discardedSpans, ReasonOf(batchResult), SpanCount(req))
    /\ pushPc' = "done"
    /\ UNCHANGED <<userID, req, keys, traces, ids, searchEnabled, rateTokens, limiter, fanOut,
                   rpc, accepted, rpcReq, batchResult, spansIngested, bytesIngested, callerCtx>>
    /\ UNCHANGED <<findVars, blockVars, cacheVars, hedgeVars, moreVars>>

\* The requests of the Push specification: no batch, or up to two ILS of at most
\* one span each, without library: up to two trace keys.
PushBatches == Batches({NilLib}, {TraceID1, TraceID3, ShortTraceID}, 2, 1) \cup {NilBatch}

(***************************************************************************)
(* The cache decorator of the backend: readerWriter of package cache.      *)
(***************************************************************************)

\* The longest object content.
MaxSize == 1

\* The objects of the wrapped store: a key path and a name.
ObjA == [keypath |-> <<"t1", "b1">>, name |-> "data"]

ObjB == [keypath |-> <<"t2", "b1">>, name |-> "data"]

\* Objects of a tenant and of a block whose names hold the separator of the keys.
ObjC == [keypath |-> <<"t1:b1">>, name |-> "data"]

ObjD == [keypath |-> <<"t1">>, name |-> "b1:data"]

Objects == objects

\* The key paths List is asked for.
ListPaths == {<<"t1">>, <<"t2">>, <<"t1", "b1">>}

RECURSIVE Join(_, _)
\* strings.Join(elems, sep)
Join(elems, sep) ==
    IF Len(elems) = 0 THEN ""
    ELSE IF Len(elems) = 1 THEN elems[1]
    ELSE elems[1] \o sep \o Join(Tail(elems), sep)

\* key(keypath, name): the cache key of an object.
key(keypath, name) == Join(keypath, ":") \o ":" \o name

CacheKeys == { key(o.keypath, o.name) : o \in Objects }

\* The contents of objects: the first n bytes of 1, 2, ...
Contents == { [i \in 1..n |-> i] : n \in 0..MaxSize }

\* The buffers handed to Append: the runs of bytes of the contents.
Buffers == { SubSeq(c, i, Len(c)) : <<c, i>> \in { <<c, i>> \in Contents \X (1..MaxSize) : i <= Len(c) } }

\* An entry of the cache, or an object of the wrapped store.
Absent == [exists |-> FALSE, bytes |-> <<>>]

Holding(b) == [exists |-> TRUE, bytes |-> b]

\* The io.Readers that yield the bytes c: one that ends with EOF after them and one
\* that fails after them.
Readers(c) == { [bytes |-> c, fails |-> f] : f \in BOOLEAN }

\* The io.Readers over an object of content c: the one that yields all of it, and
\* those that fail after some of it.
Bodies(c) == { r \in UNION { Readers(SubSeq(c, 1, n)) : n \in 0..Len(c) } : r.fails \/ r.bytes = c }

\* bytes.NewReader(b)
BytesReader(b) == [bytes |-> b, fails |-> FALSE]

\* tempo_io.ReadAllWithEstimate(r, estimate): everything r yields, and its error;
\* the estimate only sizes the buffer.
ReadAllWithEstimate(r, estimate) ==
    [b |-> r.bytes, err |-> IF r.fails THEN "readErr" ELSE "none"]

NoTracker == [isNil |-> TRUE, name |-> "", keypath |-> <<>>, bytes |-> <<>>]

NoCall == [op |-> "none", args |-> <<>>]

NoRet == [val |-> Nil, size |-> 0, err |-> "none"]

\* A call the decorator makes on its cache, and one it makes on the wrapped
\* reader or writer.
CacheCall(op, args) == [on |-> "cache", op |-> op, args |-> args]

NextCall(op, args) == [on |-> "next", op |-> op, args |-> args]

\* vals of r.cache.Fetch(ctx, []string{k}): the entry of k if the cache has one and
\* answers.
Fetch(c, k, ok) == IF ok /\ c[k].exists THEN <<c[k].bytes>> ELSE <<>>

\* nextReader.Read: the object and its size, ErrDoesNotExist, or another error.
NextRead(objs, o) ==
    IF ~objs[o].exists THEN {[object |-> BytesReader(<<>>), size |-> 0, err |-> "ErrDoesNotExist"]}
    ELSE { [object |-> r, size |-> Len(objs[o].bytes), err |-> "none"] : r \in Bodies(objs[o].bytes) }
         \cup {[object |-> BytesReader(<<>>), size |-> 0, err |-> "backendErr"]}

\* nextReader.ReadRange: fills the buffer of length n from offset, or fails.
NextReadRange(objs, o, offset, n) ==
    IF ~objs[o].exists THEN [val |-> [i \in 1..n |-> 0], size |-> 0, err |-> "ErrDoesNotExist"]
    ELSE IF offset + n > Len(objs[o].bytes) THEN [val |-> [i \in 1..n |-> 0], size |-> 0, err |-> "rangeErr"]
    ELSE [val |-> SubSeq(objs[o].bytes, offset + 1, offset + n), size |-> 0, err |-> "none"]

\* nextReader.List: the immediate children of keypath among the stored objects.
NextList(objs, keypath) ==
    { (o.keypath \o <<o.name>>)[Len(keypath) + 1] :
        o \in { p \in Objects : /\ objs[p].exists
                                /\ Len(p.keypath) >= Len(keypath)
                                /\ SubSeq(p.keypath, 1, Len(keypath)) = keypath } }

readConsultsAlways(shouldCache) == TRUE

\* Read asks the cache only if shouldCache.
readConsults(shouldCache) == shouldCache

\* A Read that stores whatever it got of the body.
readPopulatesPartial(err, shouldCache) == shouldCache

\* Read stores what it read only if the body was read in full and shouldCache.
readPopulates(err, shouldCache) == err = "none" /\ shouldCache

writeCallsDelegateFirst(k, o, b, shouldCache) ==
    <<NextCall("Write", [name |-> o.name, keypath |-> o.keypath, data |-> BytesReader(b),
                         size |-> Len(b), shouldCache |-> FALSE])>>
    \o (IF shouldCache THEN <<CacheCall("Store", [keys |-> <<k>>, bufs |-> <<b>>])>> ELSE <<>>)

\* The calls Write makes once it has read b: the store in the cache if shouldCache,
\* then the write of b with its length to the wrapped writer.
writeCalls(k, o, b, shouldCache) ==
    (IF shouldCache THEN <<CacheCall("Store", [keys |-> <<k>>, bufs |-> <<b>>])>> ELSE <<>>)
    \o <<NextCall("Write", [name |-> o.name, keypath |-> o.keypath, data |-> BytesReader(b),
                            size |-> Len(b), shouldCache |-> FALSE])>>

\* The cache after the Store calls of a sequence of calls.
RECURSIVE Stored(_, _)
Stored(c, calls) ==
    IF calls = <<>> THEN c
    ELSE IF Head(calls).on = "cache" /\ Head(calls).op = "Store"
         THEN Stored([c EXCEPT ![Head(calls).args.keys[1]] = Holding(Head(calls).args.bufs[1])],
                     Tail(calls))
    ELSE Stored(c, Tail(calls))

\* The store after the Write calls of a sequence of calls, each of which replaces
\* its object as a whole if the wrapped writer succeeds and nothing if it fails.
RECURSIVE Written(_, _, _)
Written(objs, calls, nextOk) ==
    IF calls = <<>> THEN objs
    ELSE IF Head(calls).on = "next" /\ Head(calls).op = "Write" /\ nextOk
         THEN Written([objs EXCEPT ![[keypath |-> Head(calls).args.keypath,
                                      name |-> Head(calls).args.name]] =
                                        Holding(Head(calls).args.data.bytes)],
                      Tail(calls), nextOk)
    ELSE Written(objs, Tail(calls), nextOk)

\* The object a call names.
ObjectOf(args) == [keypath |-> args.keypath, name |-> args.name]

\* No call in flight.
NoFlight == [pc |-> "idle"]

\* The calls a Read has made once it is past the cache, and past the wrapped reader.
readFetched(o, shouldCache) ==
    IF readConsults(shouldCache)
    THEN <<CacheCall("Fetch", [keys |-> <<key(o.keypath, o.name)>>])>>
    ELSE <<>>

readNext(o) == NextCall("Read", [name |-> o.name, keypath |-> o.keypath, shouldCache |-> FALSE])

\* A Read returns: the call, the calls it made and its result.
ReadReturns(o, shouldCache, calls, ret) ==
    /\ rwCall' = [op |-> "Read", args |-> [name |-> o.name, keypath |-> o.keypath,
                                          shouldCache |-> shouldCache]]
    /\ rwCalls' = calls
    /\ rwRet' = ret
    /\ rd' = NoFlight

\* readerWriter.Read up to the call of the wrapped reader: with shouldCache it asks
\* the cache and returns what the cache holds under the key.
ReadFetch ==
    /\ rd.pc = "idle"
    /\ \E o \in Objects, shouldCache \in BOOLEAN, fetchOk \in BOOLEAN :
        LET k    == key(o.keypath, o.name)
            vals == IF readConsults(shouldCache) THEN Fetch(cache, k, fetchOk) ELSE <<>>
        IN  IF Len(vals) > 0
            THEN ReadReturns(o, shouldCache, readFetched(o, shouldCache),
                             [val |-> vals[1], size |-> Len(vals[1]), err |-> "none"])
            ELSE /\ rd' = [pc |-> "fetched", o |-> o, shouldCache |-> shouldCache]
                 /\ UNCHANGED <<rwCall, rwCalls, rwRet>>
    /\ UNCHANGED <<cache, nextStore, written, objects, wr>>
    /\ UNCHANGED <<findVars, blockVars, pushVars, hedgeVars, moreVars>>

\* readerWriter.Read: r.nextReader.Read, which opens the object and tells its
\* size; its error is returned.
ReadNext ==
    /\ rd.pc = "fetched"
    /\ \E res \in NextRead(nextStore, rd.o) :
        IF res.err # "none"
        THEN ReadReturns(rd.o, rd.shouldCache,
                         readFetched(rd.o, rd.shouldCache) \o <<readNext(rd.o)>>,
                         [val |-> Nil, size |-> 0, err |-> res.err])
        ELSE /\ rd' = [pc |-> "opened", o |-> rd.o, shouldCache |-> rd.shouldCache,
                       object |-> res.object, size |-> res.size]
             /\ UNCHANGED <<rwCall, rwCalls, rwRet>>
    /\ UNCHANGED <<cache, nextStore, written, objects, wr>>
    /\ UNCHANGED <<findVars, blockVars, pushVars, hedgeVars, moreVars>>

\* What the reader opened by nextReader.Read yields when it is read: the object
\* as it was when opened, or, if the store replaced the object since, the object
\* as it is now; the wrapped store decides which.
OpenedBodies(objs, o, object) ==
    {object} \cup (IF objs[o].exists THEN Bodies(objs[o].bytes) ELSE {})

\* readerWriter.Read: tempo_io.ReadAllWithEstimate of the opened object.  The
\* Read returns here, with the size the wrapped reader told, unless it has bytes
\* to store in the cache.
ReadBody ==
    /\ rd.pc = "opened"
    /\ \E object \in OpenedBodies(nextStore, rd.o, rd.object) :
        LET ra == ReadAllWithEstimate(object, rd.size)
        IN  IF readPopulates(ra.err, rd.shouldCache)
            THEN /\ rd' = [pc |-> "got", o |-> rd.o, shouldCache |-> rd.shouldCache,
                           b |-> ra.b, size |-> rd.size, err |-> ra.err]
                 /\ UNCHANGED <<rwCall, rwCalls, rwRet>>
            ELSE ReadReturns(rd.o, rd.shouldCache,
                             readFetched(rd.o, rd.shouldCache) \o <<readNext(rd.o)>>,
                             [val |-> ra.b, size |-> rd.size, err |-> ra.err])
    /\ UNCHANGED <<cache, nextStore, written, objects, wr>>
    /\ UNCHANGED <<findVars, blockVars, pushVars, hedgeVars, moreVars>>

\* readerWriter.Read: r.cache.Store of the bytes read, and the return.
ReadStore ==
    /\ rd.pc = "got"
    /\ LET stores == <<CacheCall("Store", [keys |-> <<key(rd.o.keypath, rd.o.name)>>,
                                          bufs |-> <<rd.b>>])>>
       IN  /\ cache' = Stored(cache, stores)
           /\ ReadReturns(rd.o, rd.shouldCache,
                          readFetched(rd.o, rd.shouldCache) \o <<readNext(rd.o)>> \o stores,
                          [val |-> rd.b, size |-> rd.size, err |-> rd.err])
    /\ UNCHANGED <<nextStore, written, objects, wr>>
    /\ UNCHANGED <<findVars, blockVars, pushVars, hedgeVars, moreVars>>

\* A Write returns: the call, the calls it made and its error.
WriteReturns(call, calls, err) ==
    /\ rwCall' = call
    /\ rwCalls' = calls
    /\ rwRet' = [val |-> Nil, size |-> 0, err |-> err]
    /\ wr' = NoFlight

\* readerWriter.Write of the reader data as object o, up to its first call: it
\* reads the data, and returns the error if that fails.
Write(o, data, size, shouldCache) ==
    /\ wr.pc = "idle"
    /\ LET k    == key(o.keypath, o.name)
           ra   == ReadAllWithEstimate(data, size)
           call == [op |-> "Write", args |-> [name |-> o.name, keypath |-> o.keypath,
                                              data |-> data, size |-> size,
                                              shouldCache |-> shouldCache]]
       IN  IF ra.err # "none"
           THEN WriteReturns(call, <<>>, ra.err)
           ELSE /\ wr' = [pc |-> "calling", call |-> call, made |-> <<>>,
                          todo |-> writeCalls(k, o, ra.b, shouldCache)]
                /\ UNCHANGED <<rwCall, rwCalls, rwRet>>
    /\ UNCHANGED <<cache, nextStore, objects, rd>>
    /\ UNCHANGED <<findVars, blockVars, pushVars, hedgeVars, moreVars>>

\* readerWriter.Write: its next call, r.cache.Store or r.nextWriter.Write; after
\* the last one it returns the error of the wrapped writer.
WriteCall ==
    /\ wr.pc = "calling"
    /\ \E nextOk \in BOOLEAN :
        LET c    == Head(wr.todo)
            made == Append(wr.made, c)
            err  == IF c.on = "next" /\ ~nextOk THEN "backendErr" ELSE "none"
        IN  /\ c.on = "cache" => nextOk
            /\ cache' = Stored(cache, <<c>>)
            /\ nextStore' = Written(nextStore, <<c>>, nextOk)
            /\ IF Tail(wr.todo) = <<>>
               THEN WriteReturns(wr.call, made, err)
               ELSE /\ wr' = [wr EXCEPT !.made = made, !.todo = Tail(wr.todo)]
                    /\ UNCHANGED <<rwCall, rwCalls, rwRet>>
    /\ UNCHANGED <<objects, rd>>
    /\ UNCHANGED <<findVars, blockVars, pushVars, hedgeVars, moreVars>>

\* readerWriter.Write
CacheWrite ==
    /\ \E o \in Objects, c \in Contents, shouldCache \in BOOLEAN :
         \E data \in Readers(c), size \in {Len(c), Len(c) + 1} :
            Write(o, data, size, shouldCache)
    /\ UNCHANGED written

CacheWriteCall == WriteCall /\ UNCHANGED written

\* readerWriter.Write of an object that no Write has been called for.
WriteOnce ==
    \E o \in { p \in Objects : written[p] = "none" } :
      \E c \in Contents, shouldCache \in BOOLEAN :
         \E data \in Readers(c), size \in {Len(c), Len(c) + 1} :
            /\ Write(o, data, size, shouldCache)
            /\ written' = [written EXCEPT ![o] = IF wr'.pc = "idle" THEN "failed" ELSE "running"]

\* The next call of the one Write of an object.
WriteOnceCall ==
    /\ WriteCall
    /\ written' = IF wr'.pc # "idle" THEN written
                  ELSE [written EXCEPT ![ObjectOf(wr.call.args)] =
                            IF rwRet'.err = "none" THEN "ok" ELSE "failed"]

\* readerWriter.List
CacheList ==
    \E keypath \in ListPaths, nextOk \in BOOLEAN :
        /\ rwCall' = [op |-> "List", args |-> [keypath |-> keypath]]
        /\ rwCalls' = <<NextCall("List", [keypath |-> keypath])>>
        /\ rwRet' = IF nextOk THEN [val |-> NextList(nextStore, keypath), size |-> 0, err |-> "none"]
                    ELSE [val |-> {}, size |-> 0, err |-> "backendErr"]
        /\ UNCHANGED <<cache, nextStore, written, objects, rd, wr>>
        /\ UNCHANGED <<findVars, blockVars, pushVars, hedgeVars, moreVars>>

\* readerWriter.ReadRange
CacheReadRange ==
    \E o \in Objects, offset \in 0..MaxSize, n \in 0..MaxSize :
        LET args == [name |-> o.name, keypath |-> o.keypath, offset |-> offset,
                     buffer |-> [i \in 1..n |-> 0]]
        IN  /\ rwCall' = [op |-> "ReadRange", args |-> args]
            /\ rwCalls' = <<NextCall("ReadRange", args)>>
            /\ rwRet' = NextReadRange(nextStore, o, offset, n)
            /\ UNCHANGED <<cache, nextStore, written, objects, rd, wr>>
            /\ UNCHANGED <<findVars, blockVars, pushVars, hedgeVars, moreVars>>

\* The trackers a caller can hand in: none, or the one the last Append returned.
Trackers ==
    {NoTracker} \cup (IF rwCall.op = "Append" /\ rwRet.err = "none" THEN {rwRet.val} ELSE {})

\* readerWriter.Append; the wrapped writer buffers the bytes in the tracker.
CacheAppend ==
    \E o \in Objects, tracker \in Trackers, buffer \in Buffers :
        LET args == [name |-> o.name, keypath |-> o.keypath, tracker |-> tracker,
                     buffer |-> buffer]
            grown == IF tracker.isNil
                    THEN [isNil |-> FALSE, name |-> o.name, keypath |-> o.keypath,
                          bytes |-> buffer]
                    ELSE [tracker EXCEPT !.bytes = tracker.bytes \o buffer]
        IN  /\ grown.bytes \in Contents
            /\ rwCall' = [op |-> "Append", args |-> args]
            /\ rwCalls' = <<NextCall("Append", args)>>
            /\ rwRet' = [val |-> grown, size |-> 0, err |-> "none"]
            /\ UNCHANGED <<cache, nextStore, written, objects, rd, wr>>
            /\ UNCHANGED <<findVars, blockVars, pushVars, hedgeVars, moreVars>>

\* readerWriter.CloseAppend; the wrapped writer writes what the tracker buffered.
CacheCloseAppend ==
    \E tracker \in Trackers, nextOk \in BOOLEAN :
        LET args == [tracker |-> tracker]
        IN  /\ rwCall' = [op |-> "CloseAppend", args |-> args]
            /\ rwCalls' = <<NextCall("CloseAppend", args)>>
            /\ rwRet' = [val |-> Nil, size |-> 0, err |-> IF nextOk THEN "none" ELSE "backendErr"]
            /\ nextStore' = IF tracker.isNil \/ ~nextOk THEN nextStore
                            ELSE [nextStore EXCEPT
                                    ![[keypath |-> tracker.keypath, name |-> tracker.name]] =
                                        Holding(tracker.bytes)]
            /\ cache' = cache
            /\ UNCHANGED <<written, objects, rd, wr>>
            /\ UNCHANGED <<findVars, blockVars, pushVars, hedgeVars, moreVars>>

\* NewCache over an empty cache and an empty store, for callers that name objs.
CacheInitOf(objs) ==
    /\ objects = objs
    /\ cache = [k \in CacheKeys |-> Absent]
    /\ nextStore = [o \in Objects |-> Absent]
    /\ rwCall = NoCall
    /\ rwCalls = <<>>
    /\ rwRet = NoRet
    /\ written = [o \in Objects |-> "none"]
    /\ rd = NoFlight
    /\ wr = NoFlight

CacheInit == CacheInitOf({ObjA, ObjB})

\* The pairs of objects of one or two tenants.
ObjectPairs == { pair \in SUBSET {ObjA, ObjB, ObjC, ObjD} : Cardinality(pair) = 2 }

\* No call of the decorator is in flight.
Quiet == rd.pc = "idle" /\ wr.pc = "idle"

\* One caller: it makes its next call, of any operation, when the last has returned.
NextCache ==
    \/ Quiet /\ ReadFetch
    \/ ReadNext
    \/ ReadBody
    \/ ReadStore
    \/ Quiet /\ CacheWrite
    \/ CacheWriteCall
    \/ Quiet /\ CacheList
    \/ Quiet /\ CacheReadRange
    \/ Quiet /\ CacheAppend
    \/ Quiet /\ CacheCloseAppend

\* Two callers: one makes Reads, the other Writes, and their calls on the cache
\* and on the wrapped store interleave.
NextRace ==
    \/ ReadFetch
    \/ ReadNext
    \/ ReadBody
    \/ ReadStore
    \/ CacheWrite
    \/ CacheWriteCall

(***************************************************************************)
(* The hedging decorator of the backend reads.                             *)
(***************************************************************************)

\* The longest HedgeAt, in ticks of the clock.
MaxHedgeAt == 2

\* The clock runs until the hedge timer of every call has passed.
MaxClock == MaxHedgeAt + 1

HedgedOps == {"Read", "ReadRange"}

BackendOps == HedgedOps \cup {"List", "Write"}

hedgedAlways(op) == TRUE

\* The operations that go through the hedging decorator.
hedged(op) == op \in HedgedOps

\* Whether calls of op are hedged under the setting HedgeAt = at.
hedging(op, at) == at > 0 /\ hedged(op)

timerNeverFires(at, clk) == FALSE

\* The hedge timer of a call fires when the call has run for HedgeAt.
timerFires(at, clk) == at > 0 /\ clk = at

\* The errors of the client of the object store: its object-not-found error and
\* others, among them one that carries the canonical error of the backend.
ErrObjectNotExist == "storage: object doesn't exist"

ErrDoesNotExist == "does not exist"

StoreErrors == {ErrObjectNotExist, "storage: bucket doesn't exist", "wups", ErrDoesNotExist}

readErrorAlwaysDoesNotExist(err) == IF err = "none" THEN "none" ELSE ErrDoesNotExist

\* readError(err): the object-not-found error of the store becomes
\* backend.ErrDoesNotExist, every other error is returned as it is.
readError(err) == IF err = ErrObjectNotExist THEN ErrDoesNotExist ELSE err

\* What the store can answer to a request of op that came back: the reads can
\* miss their object, every operation can succeed or fail otherwise.
Responses(op) ==
    IF op \in HedgedOps THEN StoreErrors \cup {"none"} ELSE {"none", "wups"}

\* The error the backend returns for the error of the store: the reads pass it
\* through readError.
returned(op, err) == IF op \in HedgedOps THEN readError(err) ELSE err

\* A call of a backend operation begins: the first attempt is issued.
HedgedCall ==
    /\ hedgeRet # "running"
    /\ \E op \in BackendOps, at \in 0..MaxHedgeAt :
        /\ hedgeOp' = op
        /\ hedgeAt' = at
    /\ clock' = 0
    /\ attempts' = <<"inflight", "none">>
    /\ requests' = 1
    /\ firstReturnedAt' = -1
    /\ hedgeRet' = "running"
    /\ storeErr' = "none"
    /\ callErr' = "none"
    /\ UNCHANGED <<findVars, blockVars, pushVars, cacheVars, moreVars>>

\* Time passes while the call runs; when the hedge timer fires and the first
\* attempt is still in flight, the second attempt is issued.
Tick ==
    /\ hedgeRet = "running"
    /\ clock < MaxClock
    /\ clock' = clock + 1
    /\ IF /\ hedging(hedgeOp, hedgeAt)
          /\ timerFires(hedgeAt, clock + 1)
          /\ attempts = <<"inflight", "none">>
       THEN /\ attempts' = <<"inflight", "inflight">>
            /\ requests' = requests + 1
       ELSE UNCHANGED <<attempts, requests>>
    /\ UNCHANGED <<hedgeOp, hedgeAt, firstReturnedAt, hedgeRet, storeErr, callErr>>
    /\ UNCHANGED <<findVars, blockVars, pushVars, cacheVars, moreVars>>

failureEndsCallAtOnce(otherAttempt, retry) == TRUE

\* A failed attempt ends the call when it is not retried and the other attempt is
\* not in flight.
failureEndsCall(otherAttempt, retry) == ~retry /\ otherAttempt # "inflight"

\* Attempt i returns.  The first success is the result of the call and the other
\* attempt is cancelled.  A failure of the first attempt of a hedged call is
\* retried at once if the second attempt has not been issued; the call fails
\* when every attempt it can make has failed.
AttemptReturns(i) ==
    /\ hedgeRet = "running"
    /\ attempts[i] = "inflight"
    /\ firstReturnedAt' = IF i = 1 THEN clock ELSE firstReturnedAt
    /\ \E ok \in BOOLEAN :
         LET other == 3 - i
             retry == ~ok /\ hedging(hedgeOp, hedgeAt) /\ attempts[other] = "none"
         IN  IF ok
             THEN /\ attempts' = [attempts EXCEPT ![i] = "ok",
                                     ![other] = IF @ = "inflight" THEN "cancelled" ELSE @]
                  /\ hedgeRet' = "ok"
                  /\ requests' = requests
                  /\ \E resp \in Responses(hedgeOp) :
                       /\ storeErr' = resp
                       /\ callErr' = returned(hedgeOp, resp)
             ELSE /\ attempts' = [attempts EXCEPT ![i] = "failed",
                                     ![other] = IF retry THEN "inflight" ELSE @]
                  /\ requests' = IF retry THEN requests + 1 ELSE requests
                  /\ \E ends \in {failureEndsCall(attempts[other], retry)} :
                       /\ hedgeRet' = IF ends THEN "err" ELSE "running"
                       /\ storeErr' = IF ends THEN "connection reset" ELSE storeErr
                       /\ callErr' = IF ends THEN returned(hedgeOp, "connection reset")
                                     ELSE callErr
    /\ UNCHANGED <<hedgeOp, hedgeAt, clock>>
    /\ UNCHANGED <<findVars, blockVars, pushVars, cacheVars, moreVars>>

\* The deadline of the caller's context passes while the call runs: the call
\* returns the error of the context and the attempts in flight are cancelled.
DeadlinePasses ==
    /\ hedgeRet = "running"
    /\ hedgeRet' = "deadline"
    /\ storeErr' = "context deadline exceeded"
    /\ callErr' = returned(hedgeOp, "context deadline exceeded")
    /\ attempts' = [i \in 1..2 |-> IF attempts[i] = "inflight" THEN "cancelled" ELSE attempts[i]]
    /\ UNCHANGED <<hedgeOp, hedgeAt, clock, requests, firstReturnedAt>>
    /\ UNCHANGED <<findVars, blockVars, pushVars, cacheVars, moreVars>>

HedgeInit ==
    /\ hedgeOp = "none"
    /\ hedgeAt = 0
    /\ clock = 0
    /\ attempts = <<"none", "none">>
    /\ requests = 0
    /\ firstReturnedAt = -1
    /\ hedgeRet = "none"
    /\ storeErr = "none"
    /\ callErr = "none"

NextHedge ==
    \/ HedgedCall
    \/ Tick
    \/ \E i \in 1..2 : AttemptReturns(i)
    \/ DeadlinePasses

\* The idle values of the parts a specification does not exercise.
FindIdle ==
    /\ blockPages = <<>>
    /\ combinerSet = FALSE
    /\ findID = 1
    /\ findPc = "done"
    /\ record = NoRecord
    /\ recIdx = 0
    /\ bytesFound = Nil
    /\ findErr = "none"
    /\ pagesRead = <<>>
    /\ atCalls = <<>>
    /\ combineErr = FALSE

BlockIdle ==
    /\ store = [s \in Stores |-> [n \in ObjectNames |-> 0]]
    /\ nWrites = [s \in Stores |-> [n \in ObjectNames |-> 0]]
    /\ writeLog = [op \in {"write", "copy"} |-> <<>>]
    /\ shardCount = 1
    /\ wPos = 0
    /\ cPos = 0
    /\ cBuf = 0
    /\ cAttempts = MaxCopyAttempts
    /\ cResult = "none"
    /\ gPc = "done"
    /\ gStore = "local"
    /\ gShard = 0
    /\ gResult = "none"

(***************************************************************************)
(* The content of the bloom shards that bloomCmd.Run regenerates.  The     *)
(* sharded filter (common.NewBloom, Add, Marshal, Test) and                *)
(* common.ShardKeyForTraceID are modelled from the specification: the      *)
(* shard of an id is the number in its first four bytes modulo the shard   *)
(* count, and each shard is a classical bit-array bloom filter.  Ids are   *)
(* five bytes long: four that select the shard and one more.               *)
(***************************************************************************)
BloomBits == 4

BloomHashes == 2

BloomRanks == 0..(2 * MaxID + 1)

BloomID(rank) == <<0, 0, 0, rank \div 2, rank % 2>>

first4Bytes(id) == ((id[1] * 256 + id[2]) * 256 + id[3]) * 256 + id[4]

ShardKeyForTraceID(traceID, shards) ==
    first4Bytes(traceID) % ValidateShardCount(shards)

\* The bit positions of an id in a filter of m bits with k hash functions.
Locations(id, m, k) ==
    LET h == 2 * id[4] + id[5] + 1
    IN  { (h + j * (h \div 2 + 1)) % m : j \in 0..(k - 1) }

NewShard == [m |-> BloomBits, k |-> BloomHashes, bits |-> {}]

\* common.NewBloom: shardCount empty shards.
NewBloom(n) == [i \in 1..n |-> NewShard]

\* A writer that puts every id into the first shard.
addShardFirst(id, b) == 0

\* ShardedBloomFilter.Add picks the shard with the number of shards it holds.
addShard(id, b) == ShardKeyForTraceID(id, Len(b))

\* ShardedBloomFilter.Add
BloomAdd(b, id) ==
    LET shard == addShard(id, b) + 1
    IN  [b EXCEPT ![shard].bits = @ \cup Locations(id, b[shard].m, b[shard].k)]

\* The bytes of one shard: m, k and then one entry per bit.
MarshalShard(f) == <<f.m, f.k>> \o [p \in 1..f.m |-> IF (p - 1) \in f.bits THEN 1 ELSE 0]

\* ShardedBloomFilter.Marshal
BloomMarshal(b) == [i \in 1..Len(b) |-> MarshalShard(b[i])]

\* bloom.BloomFilter.ReadFrom
ReadFrom(bytes) ==
    [m |-> bytes[1], k |-> bytes[2],
     bits |-> { p \in 0..(bytes[1] - 1) : bytes[p + 3] = 1 }]

\* bloom.BloomFilter.Test
Test(f, id) == Locations(id, f.m, f.k) \subseteq f.bits

\* The sorted sequence of the ids whose ranks are in S.
ReplayOrder(S) ==
    [n \in 1..Cardinality(S) |->
        BloomID(CHOOSE r \in S : Cardinality({ q \in S : q < r }) = n - 1)]

BloomInit ==
    /\ \E S \in SUBSET BloomRanks : bloomIDs = ReplayOrder(S)
    /\ bloomMeta \in 1..MaxShards
    /\ bloomPc = "idle"
    /\ bloomPos = 0
    /\ blooms = <<>>
    /\ bloomObjs = [i \in 0..(bloomMeta - 1) |-> Nil]
    /\ bloomFilters = <<>>
    /\ bloomResult = "none"

BloomIdle ==
    /\ bloomIDs = <<>>
    /\ bloomMeta = 1
    /\ bloomPc = "done"
    /\ bloomPos = 0
    /\ blooms = <<>>
    /\ bloomObjs = [i \in 0..0 |-> Nil]
    /\ bloomFilters = <<>>
    /\ bloomResult = "none"


BloomReturn(result) ==
    /\ bloomPc' = "done"
    /\ bloomResult' = result

\* bloomCmd.Run: the filter is created and its shard count compared with the meta's.
BloomCreate ==
    /\ bloomPc = "idle"
    /\ \E n \in 1..MaxShards :
        IF n # bloomMeta
        THEN /\ BloomReturn("error")
             /\ UNCHANGED <<blooms, bloomPos>>
        ELSE /\ blooms' = NewBloom(n)
             /\ bloomPc' = "add"
             /\ bloomPos' = 1
             /\ UNCHANGED bloomResult
    /\ UNCHANGED <<bloomIDs, bloomMeta, bloomObjs, bloomFilters>>
    /\ UNCHANGED <<findVars, blockVars, pushVars, cacheVars, hedgeVars, lifeVars, cfgVars>>

\* bloomCmd.Run: one object of the replay with addToBloom; at its end the
\* filter is marshalled and the write loop starts.
BloomReplayAdd ==
    /\ bloomPc = "add"
    /\ \E ok \in BOOLEAN :
        IF ~ok
        THEN /\ BloomReturn("error")
             /\ UNCHANGED <<blooms, bloomPos>>
        ELSE IF bloomPos <= Len(bloomIDs)
        THEN /\ blooms' = BloomAdd(blooms, bloomIDs[bloomPos])
             /\ bloomPos' = bloomPos + 1
             /\ UNCHANGED <<bloomPc, bloomResult>>
        ELSE /\ bloomPc' = "write"
             /\ bloomPos' = 0
             /\ UNCHANGED <<blooms, bloomResult>>
    /\ UNCHANGED <<bloomIDs, bloomMeta, bloomObjs, bloomFilters>>
    /\ UNCHANGED <<findVars, blockVars, pushVars, cacheVars, hedgeVars, lifeVars, cfgVars>>

\* A write loop that writes the bytes of the first shard under every name.
writtenBytesFirst(bloomBytes, i) == bloomBytes[1]

\* The bytes the write loop writes as bloom-i: bloomBytes[i].
writtenBytes(bloomBytes, i) == bloomBytes[i + 1]

\* bloomCmd.Run: one turn of the loop that writes bloomBytes[i] as bloom-i.
BloomWrite ==
    /\ bloomPc = "write"
    /\ \E ok \in BOOLEAN :
        IF bloomPos >= Len(BloomMarshal(blooms))
        THEN /\ ok
             /\ bloomPc' = "read"
             /\ bloomPos' = 0
             /\ UNCHANGED <<bloomObjs, bloomResult>>
        ELSE IF ~ok
        THEN /\ BloomReturn("error")
             /\ UNCHANGED <<bloomObjs, bloomPos>>
        ELSE /\ bloomObjs' = [bloomObjs EXCEPT ![bloomPos] = writtenBytes(BloomMarshal(blooms), bloomPos)]
             /\ bloomPos' = bloomPos + 1
             /\ UNCHANGED <<bloomPc, bloomResult>>
    /\ UNCHANGED <<bloomIDs, bloomMeta, blooms, bloomFilters>>
    /\ UNCHANGED <<findVars, blockVars, pushVars, cacheVars, hedgeVars, lifeVars, cfgVars>>

\* bloomCmd.Run: one turn of the loop that reads bloom-i back and parses it;
\* a read that fails ends the command without an error.
BloomRead ==
    /\ bloomPc = "read"
    /\ \E ok \in BOOLEAN :
        IF bloomPos >= bloomMeta
        THEN /\ ok
             /\ bloomPc' = "test"
             /\ bloomPos' = 1
             /\ UNCHANGED <<bloomFilters, bloomResult>>
        ELSE IF ~ok \/ bloomObjs[bloomPos] = Nil
        THEN /\ BloomReturn("ok")
             /\ UNCHANGED <<bloomFilters, bloomPos>>
        ELSE /\ bloomFilters' = Append(bloomFilters, ReadFrom(bloomObjs[bloomPos]))
             /\ bloomPos' = bloomPos + 1
             /\ UNCHANGED <<bloomPc, bloomResult>>
    /\ UNCHANGED <<bloomIDs, bloomMeta, blooms, bloomObjs>>
    /\ UNCHANGED <<findVars, blockVars, pushVars, cacheVars, hedgeVars, lifeVars, cfgVars>>

\* bloomCmd.Run: one object of the replay with testBloom.
BloomTest ==
    /\ bloomPc = "test"
    /\ \E ok \in BOOLEAN :
        IF ~ok
        THEN BloomReturn("error") /\ UNCHANGED bloomPos
        ELSE IF bloomPos > Len(bloomIDs)
        THEN BloomReturn("verified") /\ UNCHANGED bloomPos
        ELSE LET id == bloomIDs[bloomPos]
                 shardKey == ShardKeyForTraceID(id, bloomMeta)
             IN  IF ~Test(bloomFilters[shardKey + 1], id)
                 THEN BloomReturn("corrupt") /\ UNCHANGED bloomPos
                 ELSE /\ bloomPos' = bloomPos + 1
                      /\ UNCHANGED <<bloomPc, bloomResult>>
    /\ UNCHANGED <<bloomIDs, bloomMeta, blooms, bloomObjs, bloomFilters>>
    /\ UNCHANGED <<findVars, blockVars, pushVars, cacheVars, hedgeVars, lifeVars, cfgVars>>

NextBloom == BloomCreate \/ BloomReplayAdd \/ BloomWrite \/ BloomRead \/ BloomTest

(***************************************************************************)
(* The lifecycle of the distributor.  New, starting, running and stopping  *)
(* are modelled from the code; the services framework they call (the       *)
(* manager of the subservices, the failure watcher and the basic service   *)
(* that runs the three phases) is modelled from the specification: every   *)
(* service is a state machine NEW, STARTING, RUNNING, STOPPING and then    *)
(* TERMINATED or FAILED.                                                   *)
(***************************************************************************)
Strategies == {"local", "global"}

\* New: the subservices handed to services.NewManager, in order.
Subservices(s) ==
    (IF s = "global" THEN <<"lifecycler", "distributorRing">> ELSE <<>>)
        \o <<"pool", "receivers">>

SubserviceSet(s) == { Subservices(s)[n] : n \in 1..Len(Subservices(s)) }

AllSubservices == SubserviceSet("global")

Stopped == {"Terminated", "Failed"}

LifeInit ==
    /\ strategy \in Strategies
    /\ subState = [s \in AllSubservices |-> IF s \in SubserviceSet(strategy) THEN "New" ELSE "absent"]
    /\ svcState = "New"
    /\ svcCtx = "live"
    /\ watcher = <<>>
    /\ startingRet = "none"
    /\ runningRet = "none"
    /\ stoppingRet = "none"

LifeIdle ==
    /\ strategy = "local"
    /\ subState = [s \in AllSubservices |-> "absent"]
    /\ svcState = "Terminated"
    /\ svcCtx = "cancelled"
    /\ watcher = <<>>
    /\ startingRet = "none"
    /\ runningRet = "none"
    /\ stoppingRet = "none"

\* The basic service is started: it enters STARTING and d.starting is called,
\* which starts every subservice of the manager.
StartAsync ==
    /\ svcState = "New"
    /\ svcState' = "Starting"
    /\ subState' = [s \in AllSubservices |-> IF subState[s] = "New" THEN "Starting" ELSE subState[s]]
    /\ UNCHANGED <<strategy, svcCtx, watcher, startingRet, runningRet, stoppingRet>>
    /\ UNCHANGED <<findVars, blockVars, pushVars, cacheVars, hedgeVars, bloomVars, cfgVars>>

\* A subservice finishes starting.
SubserviceHealthy(s) ==
    /\ subState[s] = "Starting"
    /\ subState' = [subState EXCEPT ![s] = "Running"]
    /\ UNCHANGED <<strategy, svcState, svcCtx, watcher, startingRet, runningRet, stoppingRet>>
    /\ UNCHANGED <<findVars, blockVars, pushVars, cacheVars, hedgeVars, bloomVars, cfgVars>>

\* A subservice fails; the failure watcher, which watches the manager since New,
\* has its error to hand over.
SubserviceFails(s) ==
    /\ subState[s] \in {"Starting", "Running", "Stopping"}
    /\ subState' = [subState EXCEPT ![s] = "Failed"]
    /\ watcher' = Append(watcher, s)
    /\ UNCHANGED <<strategy, svcState, svcCtx, startingRet, runningRet, stoppingRet>>
    /\ UNCHANGED <<findVars, blockVars, pushVars, cacheVars, hedgeVars, bloomVars, cfgVars>>

\* The service is asked to stop: its context is cancelled.
StopAsync ==
    /\ svcState \in {"Starting", "Running"}
    /\ svcCtx = "live"
    /\ svcCtx' = "cancelled"
    /\ UNCHANGED <<strategy, subState, svcState, watcher, startingRet, runningRet, stoppingRet>>
    /\ UNCHANGED <<findVars, blockVars, pushVars, cacheVars, hedgeVars, bloomVars, cfgVars>>

\* services.StartManagerAndAwaitHealthy: what it can return in the given state.
AwaitHealthy(subs, ctx) ==
    (IF \A s \in DOMAIN subs : subs[s] \in {"Running", "absent"} THEN {"nil"} ELSE {})
        \cup (IF \E s \in DOMAIN subs : subs[s] \in Stopped THEN {"error"} ELSE {})
        \cup (IF ctx = "cancelled" THEN {"error"} ELSE {})

\* d.starting returns: nil only when StartManagerAndAwaitHealthy gave no error.
\* The failed start leaves the service FAILED without calling d.stopping.
starting ==
    /\ svcState = "Starting"
    /\ startingRet = "none"
    /\ \E err \in AwaitHealthy(subState, svcCtx) :
        /\ startingRet' = err
        /\ svcState' = IF err = "nil" THEN "Running" ELSE "Failed"
    /\ UNCHANGED <<strategy, subState, svcCtx, watcher, runningRet, stoppingRet>>
    /\ UNCHANGED <<findVars, blockVars, pushVars, cacheVars, hedgeVars, bloomVars, cfgVars>>

\* A select that answers nil whichever of its cases is ready.
selectAlwaysNil(ctx, ch) == IF ctx = "cancelled" \/ ch # <<>> THEN {"nil"} ELSE {}

\* The select of d.running: the cases that are ready, of which one is taken.
select(ctx, ch) ==
    (IF ctx = "cancelled" THEN {"nil"} ELSE {})
        \cup (IF ch # <<>> THEN {"error"} ELSE {})

\* d.running returns, and the service enters STOPPING, where d.stopping stops
\* every subservice of the manager.  The receive from the watcher's channel takes
\* the failure that arrived first and leaves the later ones pending.
running ==
    /\ svcState = "Running"
    /\ \E err \in select(svcCtx, watcher) :
        /\ runningRet' = err
        /\ watcher' = IF err = "error" THEN Tail(watcher) ELSE watcher
    /\ svcState' = "Stopping"
    /\ subState' = [s \in AllSubservices |->
                        CASE subState[s] \in {"Starting", "Running"} -> "Stopping"
                          [] subState[s] = "New" -> "Terminated"
                          [] OTHER -> subState[s]]
    /\ UNCHANGED <<strategy, svcCtx, startingRet, stoppingRet>>
    /\ UNCHANGED <<findVars, blockVars, pushVars, cacheVars, hedgeVars, bloomVars, cfgVars>>

\* A subservice that was asked to stop has stopped.
SubserviceStops(s) ==
    /\ subState[s] = "Stopping"
    /\ subState' = [subState EXCEPT ![s] = "Terminated"]
    /\ UNCHANGED <<strategy, svcState, svcCtx, watcher, startingRet, runningRet, stoppingRet>>
    /\ UNCHANGED <<findVars, blockVars, pushVars, cacheVars, hedgeVars, bloomVars, cfgVars>>

\* services.StopManagerAndAwaitStopped with the background context returns
\* once no subservice is left that has not stopped.
AwaitStopped(subs) ==
    IF \A s \in DOMAIN subs : subs[s] \in Stopped \cup {"absent"} THEN {"nil"} ELSE {}

\* d.stopping returns; the service ends FAILED if d.running had returned an
\* error and TERMINATED if it had not.
stopping ==
    /\ svcState = "Stopping"
    /\ \E err \in AwaitStopped(subState) :
        /\ stoppingRet' = err
        /\ svcState' = IF runningRet = "error" \/ err # "nil" THEN "Failed" ELSE "Terminated"
    /\ UNCHANGED <<strategy, subState, svcCtx, watcher, startingRet, runningRet>>
    /\ UNCHANGED <<findVars, blockVars, pushVars, cacheVars, hedgeVars, bloomVars, cfgVars>>

NextLife ==
    \/ StartAsync
    \/ \E s \in AllSubservices : SubserviceHealthy(s)
    \/ \E s \in AllSubservices : SubserviceFails(s)
    \/ StopAsync
    \/ starting
    \/ running
    \/ \E s \in AllSubservices : SubserviceStops(s)
    \/ stopping

\* The configuration of the distributor by default: both flags unset, and a ring
\* whose instances are all ACTIVE.
CfgIdle ==
    /\ cfg = [LogReceivedTraces |-> FALSE, ExtendWrites |-> FALSE]
    /\ ringDesc = [g \in Ingesters |-> "ACTIVE"]

MoreIdle == BloomIdle /\ LifeIdle /\ CfgIdle

InitFind == FindInit /\ BlockIdle /\ PushIdle /\ CacheInit /\ HedgeInit /\ MoreIdle

InitBlock == BlockInit /\ FindIdle /\ PushIdle /\ CacheInit /\ HedgeInit /\ MoreIdle

SpecBlock == InitBlock /\ [][NextBlock]_vars

InitRegroup == RegroupInit /\ FindIdle /\ BlockIdle /\ CacheInit /\ HedgeInit /\ MoreIdle

NextRegroup == Regroup

InitShard == ShardInit /\ FindIdle /\ BlockIdle /\ CacheInit /\ HedgeInit /\ MoreIdle

SpecShard == InitShard /\ [][NextRegroup]_vars

SpecRegroup == InitRegroup /\ [][NextRegroup]_vars

InitPush == PushInit({NoTenant, TenantA}, PushBatches) /\ FindIdle /\ BlockIdle /\ CacheInit /\ HedgeInit /\ MoreIdle

NextPush ==
    \/ PushStart
    \/ \E g \in Ingesters : IngesterRPC(g)
    \/ \E g \in Ingesters : PushBytesReturns(g)
    \/ PushReturn

SpecPush == InitPush /\ [][NextPush]_vars

\* Pushes of one tenant whose caller may cancel its context at any time.
CancelBatches == Batches({NilLib}, {TraceID1, TraceID3}, 1, 1)

InitCancel == PushInit({TenantA}, CancelBatches) /\ FindIdle /\ BlockIdle /\ CacheInit /\ HedgeInit /\ MoreIdle

NextCancel == NextPush \/ CancelCaller

SpecCancel == InitCancel /\ [][NextCancel]_vars

\* Pushes of one tenant to a distributor that may log the traces it receives.
LogBatches == Batches({NilLib}, {TraceID1}, 2, 1) \cup {NilBatch}

InitLog ==
    /\ PushInit({TenantA}, LogBatches)
    /\ FindIdle /\ BlockIdle /\ CacheInit /\ HedgeInit /\ BloomIdle /\ LifeIdle
    /\ cfg \in { [LogReceivedTraces |-> b, ExtendWrites |-> FALSE] : b \in BOOLEAN }
    /\ ringDesc = [g \in Ingesters |-> "ACTIVE"]

SpecLog == InitLog /\ [][NextPush]_vars

\* Pushes of one or two spans of one tenant through a ring in which the first or
\* the second instance may be JOINING, to a distributor with ExtendWrites set or
\* unset.
ExtendBatches ==
    { MakeBatch(<<<<NilLib, <<TraceID1>>>>>>),
      MakeBatch(<<<<NilLib, <<TraceID1>>>>, <<NilLib, <<TraceID3>>>>>>) }

RingDescs ==
    { [g \in Ingesters |-> IF g = joining THEN "JOINING" ELSE "ACTIVE"] : joining \in 0..2 }

InitExtend ==
    /\ PushInit({TenantA}, ExtendBatches)
    /\ FindIdle /\ BlockIdle /\ CacheInit /\ HedgeInit /\ BloomIdle /\ LifeIdle
    /\ cfg \in { [LogReceivedTraces |-> FALSE, ExtendWrites |-> b] : b \in BOOLEAN }
    /\ ringDesc \in RingDescs
    /\ ~searchEnabled
    /\ rateTokens[TenantA] = MaxBudget

SpecExtend == InitExtend /\ [][NextPush]_vars

InitCache == CacheInit /\ HedgeInit /\ FindIdle /\ BlockIdle /\ PushIdle /\ MoreIdle

SpecCache == InitCache /\ [][NextCache]_vars

\* The two callers read and write one object.
InitRace == CacheInitOf({ObjA}) /\ HedgeInit /\ FindIdle /\ BlockIdle /\ PushIdle /\ MoreIdle

SpecRace == InitRace /\ [][NextRace]_vars

\* Reads and Writes through the decorator, every object written at most once, by
\* two callers: the Reads of one interleave with the Writes of the other.
NextWriteOnce == ReadFetch \/ ReadNext \/ ReadBody \/ ReadStore \/ WriteOnce \/ WriteOnceCall

SpecWriteOnce == InitCache /\ [][NextWriteOnce]_vars

InitKey ==
    /\ \E pair \in ObjectPairs : CacheInitOf(pair)
    /\ HedgeInit /\ FindIdle /\ BlockIdle /\ PushIdle /\ MoreIdle

SpecKey == InitKey /\ [][NextWriteOnce]_vars

InitHedge == HedgeInit /\ CacheInit /\ FindIdle /\ BlockIdle /\ PushIdle /\ MoreIdle

SpecHedge == InitHedge /\ [][NextHedge]_vars

InitBloom == BloomInit /\ HedgeInit /\ CacheInit /\ FindIdle /\ BlockIdle /\ PushIdle /\ LifeIdle /\ CfgIdle

SpecBloom == InitBloom /\ [][NextBloom]_vars

InitLife == LifeInit /\ HedgeInit /\ CacheInit /\ FindIdle /\ BlockIdle /\ PushIdle /\ BloomIdle /\ CfgIdle

\* The goroutine that runs a phase of the service is scheduled in the end.
SpecLife ==
    /\ InitLife
    /\ [][NextLife]_vars
    /\ WF_vars(starting)
    /\ WF_vars(running)
    /\ WF_vars(stopping)

NextFind == FindIndexFind \/ FindFindOne \/ FindIndexAt

SpecFind == InitFind /\ [][NextFind]_vars

\* Find runs in the goroutine of its caller, which keeps being scheduled.
SpecFindLive == InitFind /\ [][NextFind]_vars /\ WF_vars(NextFind)

(***************************************************************************)
(* Properties of pagedFinder.Find.                                         *)
(***************************************************************************)
FindReturnedOk == findPc = "done" /\ findErr = "none"

FirstPos == IndexFindPos(Index(blockPages), findID)

\* The first 0-based position after FirstPos whose record is nil or carries another id.
RunEnd ==
    CHOOSE j \in (FirstPos + 1)..Len(blockPages) :
        /\ (j = Len(blockPages) \/ Index(blockPages)[j + 1].id # findID)
        /\ \A k \in (FirstPos + 1)..(j - 1) : Index(blockPages)[k + 1].id = findID

\* The objects of the target id in page p, combined in page order.
RECURSIVE ObjectsOfPage(_, _)
ObjectsOfPage(page, tid) ==
    IF page = <<>> THEN Nil
    ELSE (IF Head(page).id = tid THEN Head(page).obj ELSE Nil) \o ObjectsOfPage(Tail(page), tid)

RECURSIVE CombinedPages(_, _)
CombinedPages(from, to) ==
    IF from > to THEN Nil
    ELSE ObjectsOfPage(blockPages[from], findID) \o CombinedPages(from + 1, to)

\* C4: with a combiner, Find returns the combination of the objects found in the
\* page of the record of index.Find and in the pages of the following records for
\* as long as their id equals the target, reading exactly those pages and stopping
\* at the first record with another id or at the end of the index.
C4_CombinesMatchingRun ==
    (FindReturnedOk /\ combinerSet /\ IndexFind(Index(blockPages), findID) # NoRecord)
        => /\ bytesFound = CombinedPages(FirstPos + 1, RunEnd)
           /\ pagesRead = [k \in 1..(RunEnd - FirstPos) |-> FirstPos + k]
           /\ atCalls = [k \in 1..(RunEnd - FirstPos) |-> FirstPos + k]
           /\ (record = NoRecord \/ record.id # findID)

\* A lookup that combined two pages and stopped at a record of another id.
C4_Witness ==
    /\ FindReturnedOk /\ combinerSet
    /\ Len(pagesRead) >= 2
    /\ record # NoRecord /\ record.id # findID
    /\ Len(bytesFound) >= 2

\* C5: when index.Find returns no record, Find returns (nil, nil) and no data page
\* has been read.
C5_AbsentIsNotAnError ==
    (findPc = "done" /\ findErr # "indexFind" /\ ~(\E k \in 1..Len(blockPages) : Index(blockPages)[k].id >= findID))
        => bytesFound = Nil /\ findErr = "none" /\ pagesRead = <<>> /\ atCalls = <<>>

\* A finished lookup of an id above every record of a non-empty index.
C5_Witness ==
    /\ findPc = "done" /\ findErr = "none"
    /\ Len(blockPages) > 0
    /\ \A k \in 1..Len(blockPages) : Index(blockPages)[k].id < findID
    /\ bytesFound = Nil

FirstObject(page, tid) ==
    IF \E k \in 1..Len(page) : page[k].id = tid
    THEN page[CHOOSE k \in 1..Len(page) :
                  page[k].id = tid /\ \A j \in 1..(k - 1) : page[j].id # tid].obj
    ELSE Nil

\* C6: without a combiner, Find reads exactly the page of the record of index.Find,
\* returns the first object of that page with the target id (nil if there is none)
\* and never asks the index for a following record.
C6_NoCombinerReadsOnePage ==
    (FindReturnedOk /\ ~combinerSet /\ IndexFind(Index(blockPages), findID) # NoRecord)
        => /\ pagesRead = <<FirstPos + 1>>
           /\ bytesFound = FirstObject(blockPages[FirstPos + 1], findID)
           /\ atCalls = <<>>

\* A lookup without combiner in a page holding the id twice, followed by a record
\* of the same id that is not inspected.
C6_Witness ==
    /\ FindReturnedOk /\ ~combinerSet
    /\ Len(pagesRead) = 1
    /\ Len(SelectSeq(blockPages[pagesRead[1]], LAMBDA o : o.id = findID)) = 2
    /\ recIdx + 1 < Len(blockPages)
    /\ Index(blockPages)[recIdx + 2].id = findID
    /\ Len(bytesFound) = 1

(***************************************************************************)
(* Properties of the block artifacts.                                      *)
(***************************************************************************)
ShardNames == [k \in 1..shardCount |-> bloomName(k - 1)]

\* Every attempt of the log follows the given order, and follows a success.
InOrder(log, order) ==
    /\ Len(log) <= Len(order)
    /\ \A k \in 1..Len(log) :
         /\ log[k].name = order[k]
         /\ k > 1 => log[k - 1].ok

\* C2: the meta is written last.  writeBlockMeta attempts index, then the bloom
\* shards 0..N-1 in ascending order, then meta; CopyBlock attempts data, the bloom
\* shards, index, then meta; each write is attempted only after every earlier one
\* succeeded, and a call that failed has not written the meta.  So wherever the meta of
\* the block is present, its index and all its bloom shards (and at the
\* destination of CopyBlock its data) are present.
C2_MetaWrittenLast ==
    /\ InOrder(writeLog["write"], <<nameObjects, nameIndex>> \o ShardNames \o <<nameMeta>>)
    /\ InOrder(writeLog["copy"], <<nameObjects>> \o ShardNames \o <<nameIndex, nameMeta>>)
    /\ wPos = 0 => ~Present("local", nameMeta)
    /\ cResult = "error" =>
         \A k \in 1..Len(writeLog["copy"]) :
             ~(writeLog["copy"][k].name = nameMeta /\ writeLog["copy"][k].ok)
    /\ (cResult = "error" /\ cAttempts = 1) => ~Present("remote", nameMeta)
    /\ \A s \in Stores :
         Present(s, nameMeta) =>
             /\ Present(s, nameIndex)
             /\ \A k \in 0..(shardCount - 1) : Present(s, bloomName(k))
    /\ Present("remote", nameMeta) => Present("remote", nameObjects)

\* The block was built and copied with two bloom shards by the second call of
\* CopyBlock.
C2_Witness ==
    /\ shardCount >= 2
    /\ Present("local", nameMeta)
    /\ Present("remote", nameMeta)
    /\ cResult = "ok"
    /\ cAttempts = 2

\* C3: once the meta of the block is present in a backend, no operation writes
\* any other object of the block in that backend.
C3_NoWriteAfterMeta ==
    [][\A s \in Stores : \A n \in ObjectNames \ {nameMeta} :
           Present(s, nameMeta) => nWrites'[s][n] = nWrites[s][n]]_vars

(***************************************************************************)
(* Properties of requestsByTraceID.                                        *)
(***************************************************************************)
InputSpans == FlatSpans(req, 1)

BatchValid == \A n \in 1..Len(InputSpans) : ValidTraceID(InputSpans[n].span.traceId)

InputTraceIDs == { InputSpans[n].span.traceId : n \in 1..Len(InputSpans) }

\* The (trace id, instrumentation library) pair of the n-th input span.
PairOf(n) == <<InputSpans[n].span.traceId, req.ils[InputSpans[n].ils].lib>>

\* The output InstrumentationLibrarySpans, as positions <<trace, ResourceSpans, ILS>>.
OutILS ==
    { p \in (1..Len(traces)) \X (1..(MaxILS * MaxSpans)) \X (1..MaxILS) :
          p[2] <= Len(traces[p[1]]) /\ p[3] <= Len(traces[p[1]][p[2]].ils) }

SpansAt(p) == traces[p[1]][p[2]].ils[p[3]].spans

SpanSet(spans) == { spans[k] : k \in 1..Len(spans) }

\* C7: for a batch of valid spans requestsByTraceID returns one Trace per distinct
\* trace id of the batch: as many traces, keys and ids as distinct trace ids, and
\* every span of traces[i] has trace id ids[i].
C7_OneTracePerTraceID ==
    (pushPc = "regrouped" /\ BatchValid) =>
        /\ pushErr = "none"
        /\ Len(traces) = Cardinality(InputTraceIDs)
        /\ Len(keys) = Cardinality(InputTraceIDs)
        /\ Len(ids) = Cardinality(InputTraceIDs)
        /\ \A p \in OutILS : \A sp \in SpanSet(SpansAt(p)) : sp.traceId = ids[p[1]]

\* C8: for each (trace id, instrumentation library) pair of the batch the output
\* holds exactly one ILS with all spans of the pair and no other span, alone in its
\* ResourceSpans, in the Trace of that trace id, with the Resource of the batch.
C8_OneILSPerTraceAndLibrary ==
    (pushPc = "regrouped" /\ BatchValid) =>
        /\ \A n \in 1..Len(InputSpans) :
             \E p \in OutILS :
                /\ SpanSet(SpansAt(p)) =
                       { InputSpans[m].span : m \in { j \in 1..Len(InputSpans) : PairOf(j) = PairOf(n) } }
                /\ ids[p[1]] = PairOf(n)[1]
                /\ traces[p[1]][p[2]].ils[p[3]].lib = PairOf(n)[2]
                /\ \A q \in OutILS \ {p} : InputSpans[n].span \notin SpanSet(SpansAt(q))
        /\ \A p \in OutILS :
             /\ Len(traces[p[1]][p[2]].ils) = 1
             /\ traces[p[1]][p[2]].resource = req.resource

\* C9: no span is lost, duplicated or reordered: every input span occurs exactly
\* once in the output, all spans of one trace id lie in one Trace (one ring key),
\* and the spans of each output ILS are in input order.
C9_NoSpanLostSplitOrReordered ==
    (pushPc = "regrouped" /\ BatchValid) =>
        /\ \A n \in 1..Len(InputSpans) :
             Cardinality({ <<p, k>> \in OutILS \X (1..(MaxILS * MaxSpans)) :
                              k <= Len(SpansAt(p)) /\ SpansAt(p)[k] = InputSpans[n].span }) = 1
        /\ \A p \in OutILS : \A k \in 1..Len(SpansAt(p)) :
             \E n \in 1..Len(InputSpans) : InputSpans[n].span = SpansAt(p)[k]
        /\ \A t \in InputTraceIDs :
             Cardinality({ p[1] : p \in { q \in OutILS : \E sp \in SpanSet(SpansAt(q)) : sp.traceId = t } }) = 1
        /\ \A p \in OutILS : \A k \in 1..(Len(SpansAt(p)) - 1) :
             SpansAt(p)[k].spanId < SpansAt(p)[k + 1].spanId

(***************************************************************************)
(* Claims about Distributor.Push.                                          *)
(***************************************************************************)
\* The replicas of the key that accepted its trace.
AcceptedBy(k) == { g \in ReplicaSet(k) : accepted[g] }

\* C1: a Push that reached the fan-out has returned success exactly when every
\* trace key of the batch was accepted by at least floor(R/2)+1 of its replica
\* ingesters.
C1_SuccessIffQuorum ==
    (pushPc = "done" /\ fanOut) =>
        ((pushErr = "none") <=>
            \A n \in 1..Len(keys) :
                Cardinality(AcceptedBy(keys[n])) >= (ReplicationFactor \div 2) + 1)

\* Push returned success for two traces although one replica refused its request.
C1_Witness ==
    /\ pushPc = "done"
    /\ fanOut
    /\ pushErr = "none"
    /\ Len(keys) >= 2
    /\ \E g \in Ingesters : rpc[g] \notin {"idle", "pending", "inflight", "none"}
    /\ \A n \in 1..Len(keys) : Cardinality(AcceptedBy(keys[n])) >= (ReplicationFactor \div 2) + 1

\* The request holds a span whose trace id is not 16 bytes long.
HasInvalidSpan ==
    /\ ~req.isNil
    /\ \E n \in 1..Len(InputSpans) : Len(InputSpans[n].span.traceId) # 16

\* The whole batch was rejected: InvalidArgument, the spans of the request charged
\* to internal_error, and no request built for or sent to any ingester.
BatchRejected ==
    /\ pushErr = "InvalidArgument"
    /\ discardedSpans["internal_error"] = SpanCount(req)
    /\ discardedSpans["rate_limited"] = 0
    /\ ~fanOut
    /\ \A g \in Ingesters : rpc[g] = "idle" /\ ~rpcReq[g].sent /\ ~accepted[g]

\* C10 as stated: a request with a span whose trace id is not 16 bytes long is
\* rejected as a whole with InvalidArgument, whatever else holds of the request.
C10_InvalidTraceIDAlwaysRejected ==
    (pushPc = "done" /\ HasInvalidSpan) => BatchRejected

\* C10, amended: a request of a tenant that the rate limiter admitted and that
\* holds a span whose trace id is not 16 bytes long is rejected as a whole with
\* InvalidArgument, its span count charged to internal_error, no ingester called.
C10_AdmittedInvalidTraceIDRejected ==
    (pushPc = "done" /\ HasInvalidSpan /\ userID # NoTenant /\ limiter = "allowed") => BatchRejected

\* An admitted request with a valid and an invalid span was rejected.
C10_Witness ==
    /\ pushPc = "done"
    /\ HasInvalidSpan
    /\ userID # NoTenant
    /\ limiter = "allowed"
    /\ \E n \in 1..Len(InputSpans) : Len(InputSpans[n].span.traceId) = 16
    /\ pushErr = "InvalidArgument"
    /\ discardedSpans["internal_error"] = 2

\* No request was built for, sent to or accepted by any ingester.
NoIngesterRPC ==
    /\ ~fanOut
    /\ \A g \in Ingesters : rpc[g] = "idle" /\ ~rpcReq[g].sent /\ ~accepted[g]

\* C11: when the rate limiter denies the request, Push fails with ResourceExhausted,
\* the span count of the request is charged to rate_limited and to no other reason,
\* and no ingester is called; the denial takes nothing from any bucket, and no Push
\* ever changes the bucket of a tenant other than its own.
C11_DenialChargesRateLimited ==
    /\ [] ((pushPc = "done" /\ limiter = "denied") =>
              /\ pushErr = "ResourceExhausted"
              /\ discardedSpans = [r \in Reasons |-> IF r = "rate_limited" THEN SpanCount(req) ELSE 0]
              /\ NoIngesterRPC)
    /\ [][ /\ (limiter' = "denied" => rateTokens' = rateTokens)
           /\ \A t \in Tenants \ {userID} : rateTokens'[t] = rateTokens[t] ]_vars

\* Tenant "a" was denied a request that the bucket of tenant "b" still admits.
C11_Witness ==
    /\ pushPc = "done"
    /\ limiter = "denied"
    /\ userID = TenantA
    /\ pushErr = "ResourceExhausted"
    /\ discardedSpans["rate_limited"] >= 2
    /\ AllowN(rateTokens, TenantB, ReqSize(req))

\* C12: a Push without tenant id is rejected with Unauthenticated before anything
\* else: no byte or span counter moved, the limiter was not asked and no bucket
\* changed, no discarded_spans counter moved, and no ingester was called.
C12_NoTenantRejectedFirst ==
    /\ [] ((pushPc = "done" /\ userID = NoTenant) =>
              /\ pushErr = "Unauthenticated"
              /\ bytesIngested = 0
              /\ spansIngested = 0
              /\ limiter = "notAsked"
              /\ \A r \in Reasons : discardedSpans[r] = 0
              /\ NoIngesterRPC)
    /\ [][userID = NoTenant => rateTokens' = rateTokens]_vars

\* A request of two valid spans, sent without tenant, was rejected.
C12_Witness ==
    /\ pushPc = "done"
    /\ userID = NoTenant
    /\ pushErr = "Unauthenticated"
    /\ ~req.isNil
    /\ SpanCount(req) = 2
    /\ \A n \in 1..Len(InputSpans) : Len(InputSpans[n].span.traceId) = 16

\* The positions of the keys the ring assigns to ingester g.
AssignedTo(g) == { j \in 1..Len(keys) : g \in ReplicaSet(keys[j]) }

\* The search data of the trace at position j, empty when search is disabled.
SearchDataAt(j) == IF searchEnabled THEN extractSearchDataAll(traces, ids)[j] ELSE <<>>

\* C13: in the fan-out every ingester is sent at most one PushBytes request, none
\* when the ring assigned it no key, and exactly one once its callback has run with
\* a client at hand; the request holds one entry per assigned key in each of Traces,
\* Ids and SearchData, and entry i of the three arrays is the marshalled trace, the
\* id and the search data (empty if there is none) of one and the same assigned key.
C13_RequestAlignedByIndex ==
    \A g \in Ingesters :
        /\ rpcReq[g].calls <= 1
        /\ rpcReq[g].sent <=> rpcReq[g].calls = 1
        /\ rpc[g] \notin {"idle", "pending", "noClient"} => rpcReq[g].calls = 1
        /\ rpc[g] = "noClient" => rpcReq[g].calls = 0
        /\ \A assigned \in {AssignedTo(g)} :
             /\ assigned = {} => rpcReq[g].calls = 0
             /\ rpcReq[g].sent =>
                  /\ Len(rpcReq[g].Traces) = Cardinality(assigned)
                  /\ Len(rpcReq[g].Ids) = Cardinality(assigned)
                  /\ Len(rpcReq[g].SearchData) = Cardinality(assigned)
                  /\ \A i \in 1..Len(rpcReq[g].Traces) :
                       \E j \in assigned :
                          /\ rpcReq[g].Traces[i] = Marshal(traces[j])
                          /\ rpcReq[g].Ids[i] = ids[j]
                          /\ rpcReq[g].SearchData[i] = SearchDataAt(j)
                  /\ \A j \in assigned :
                       \E i \in 1..Len(rpcReq[g].Ids) : rpcReq[g].Ids[i] = ids[j]

\* An ingester that replicates only the second of two traces was sent that trace,
\* with its search data, and another ingester was sent both.
C13_Witness ==
    /\ Len(keys) = 2
    /\ searchEnabled
    /\ \E g, h \in Ingesters :
         /\ AssignedTo(g) = {2}
         /\ rpcReq[g].sent
         /\ rpcReq[g].Ids = <<ids[2]>>
         /\ rpcReq[g].SearchData = <<SearchDataAt(2)>>
         /\ AssignedTo(h) = {1, 2}
         /\ rpcReq[h].sent
         /\ Len(rpcReq[h].Traces) = 2

\* C14: the ring key of a trace depends on the tenant and the trace id only: for
\* every batch, tenant and order of the final loop, keys[i] is the token of
\* (tenant, ids[i]), and the keys are pairwise different.
C14_KeyIsTokenOfTenantAndTraceID ==
    (pushPc = "regrouped" /\ pushErr = "none") =>
        /\ Len(keys) = Len(ids)
        /\ \A i \in 1..Len(keys) : keys[i] = TokenFor(userID, ids[i])
        /\ \A i, j \in 1..Len(keys) : i # j => keys[i] # keys[j]

\* Tenant "b" sent TraceID3 and TraceID4 in both orders of the final loop: each id
\* has its own key in the batch.
C14_Witness ==
    /\ pushPc = "regrouped"
    /\ userID = TenantB
    /\ Len(keys) = 2
    /\ ids = <<TraceID4, TraceID3>>
    /\ InputSpans[1].span.traceId = TraceID3
    /\ keys[1] = TokenFor(TenantB, TraceID4)
    /\ keys[1] # TokenFor(TenantA, TraceID4)

\* C15: when the fan-out of a Push failed, the span count of the request is charged
\* to exactly one reason: live_traces_exceeded for an error whose message starts
\* with the LIVE_TRACES_EXCEEDED prefix, trace_too_large for one that starts with
\* the TRACE_TOO_LARGE prefix, internal_error for any other; a fan-out that
\* succeeded charges nothing.
C15_FanOutErrorChargesOneReason ==
    (pushPc = "done" /\ fanOut) =>
        /\ pushErr = "LIVE_TRACES_EXCEEDED" =>
             discardedSpans = [r \in Reasons |-> IF r = "live_traces_exceeded" THEN SpanCount(req) ELSE 0]
        /\ pushErr = "TRACE_TOO_LARGE" =>
             discardedSpans = [r \in Reasons |-> IF r = "trace_too_large" THEN SpanCount(req) ELSE 0]
        /\ pushErr \in {"DeadlineExceeded", "noClient"} =>
             discardedSpans = [r \in Reasons |-> IF r = "internal_error" THEN SpanCount(req) ELSE 0]
        /\ pushErr = "none" => \A r \in Reasons : discardedSpans[r] = 0
        /\ pushErr \in {"none", "LIVE_TRACES_EXCEEDED", "TRACE_TOO_LARGE", "DeadlineExceeded", "noClient"}

\* A Push of two spans failed in the fan-out with LIVE_TRACES_EXCEEDED although
\* another ingester had failed with TRACE_TOO_LARGE before.
C15_Witness ==
    /\ pushPc = "done"
    /\ fanOut
    /\ pushErr = "LIVE_TRACES_EXCEEDED"
    /\ SpanCount(req) = 2
    /\ discardedSpans["live_traces_exceeded"] = 2
    /\ \E g \in Ingesters : rpc[g] = "TRACE_TOO_LARGE"

\* C16: every PushBytes that was issued runs under a context derived from the
\* background context, with the timeout RemoteTimeout and the tenant id of the
\* push; cancelling the context of the caller changes no call and no request,
\* and a call in flight ends only by returning or by reaching the timeout, never
\* by cancellation.
C16_PushBytesDetachedFromCaller ==
    /\ [](\A g \in Ingesters :
            rpcReq[g].sent =>
                rpcReq[g].ctx = [parent |-> "background", timeout |-> "RemoteTimeout",
                                 orgID |-> userID])
    /\ [](\A g \in Ingesters : rpc[g] # "Canceled")
    /\ [][callerCtx' # callerCtx =>
            /\ callerCtx' = "cancelled"
            /\ rpc' = rpc /\ accepted' = accepted /\ rpcReq' = rpcReq
            /\ batchResult' = batchResult]_vars
    /\ [][\A g \in Ingesters :
            rpc[g] = "inflight" =>
                \/ rpc'[g] = "inflight"
                \/ /\ rpc'[g] \in {"none", "LIVE_TRACES_EXCEEDED", "TRACE_TOO_LARGE",
                                   "DeadlineExceeded"}
                   /\ callerCtx' = callerCtx]_vars

\* The caller has cancelled while one PushBytes is still in flight and another has
\* been accepted by its ingester.
C16_Witness ==
    /\ callerCtx = "cancelled"
    /\ \E g \in Ingesters : rpc[g] = "inflight" /\ rpcReq[g].sent /\ rpcReq[g].ctx.orgID = TenantA
    /\ \E g \in Ingesters : accepted[g]

(***************************************************************************)
(* Claims about the cache decorator.                                       *)
(***************************************************************************)
\* The calls that must not touch the cache: a Read or Write without shouldCache,
\* and every ReadRange, List, Append and CloseAppend.
Uncached(call) ==
    \/ call.op \in {"ReadRange", "List", "Append", "CloseAppend"}
    \/ call.op \in {"Read", "Write"} /\ ~call.args.shouldCache

\* The last call of the decorator called nothing on the cache.
NoCacheCall == \A i \in 1..Len(rwCalls) : rwCalls[i].on # "cache"

\* The last call returned on this step or before has changed.
Returned == <<rwCall', rwCalls', rwRet'>> # <<rwCall, rwCalls, rwRet>>

\* A step of a call that must not touch the cache: a step of a Read or of a Write
\* without shouldCache, or the one step of another operation.
UncachedStep ==
    \/ rd.pc # "idle" /\ rd' # rd /\ ~rd.shouldCache
    \/ rd.pc = "idle" /\ rd'.pc # "idle" /\ ~rd'.shouldCache
    \/ wr.pc # "idle" /\ wr' # wr /\ ~wr.call.args.shouldCache
    \/ wr.pc = "idle" /\ wr'.pc # "idle" /\ ~wr'.call.args.shouldCache
    \/ rd' = rd /\ wr' = wr /\ Returned /\ Uncached(rwCall')

\* A Write returned on this step because it could not read its data.
DataReadFailed ==
    wr.pc = "idle" /\ wr'.pc = "idle" /\ Returned /\ rwCall'.op = "Write" /\ rwCall'.args.data.fails

\* C17, as stated: a call that must not touch the cache makes no call on the cache,
\* leaves the cache as it was, and is one call of the same operation on the
\* wrapped reader or writer with the arguments it was given.
C17_UncachedCallsDelegatedUnchanged ==
    /\ [](Uncached(rwCall) =>
            /\ NoCacheCall
            /\ rwCalls = <<NextCall(rwCall.op, rwCall.args)>>)
    /\ [][UncachedStep => cache' = cache]_vars

\* C17, amended: a call that must not touch the cache makes no call on the cache
\* and none of its steps changes the cache.  A Read, ReadRange, List, Append or
\* CloseAppend among them is one call of the same operation on the wrapped reader
\* or writer with the arguments it was given.  A Write among them first reads its
\* data: if that succeeds it is one Write on the wrapped writer with the same name
\* and key path, the bytes read and their length; if it fails nothing is
\* delegated, the store is left as it was and the error is returned.
C17_UncachedCallsBypassCache ==
    /\ [](Uncached(rwCall) =>
            /\ NoCacheCall
            /\ rwCall.op # "Write" => rwCalls = <<NextCall(rwCall.op, rwCall.args)>>
            /\ rwCall.op = "Write" /\ ~rwCall.args.data.fails =>
                 rwCalls = <<NextCall("Write",
                                      [name |-> rwCall.args.name,
                                       keypath |-> rwCall.args.keypath,
                                       data |-> BytesReader(rwCall.args.data.bytes),
                                       size |-> Len(rwCall.args.data.bytes),
                                       shouldCache |-> FALSE])>>
            /\ rwCall.op = "Write" /\ rwCall.args.data.fails =>
                 rwCalls = <<>> /\ rwRet.err = "readErr")
    /\ [][UncachedStep => cache' = cache]_vars
    /\ [][DataReadFailed => nextStore' = nextStore]_vars

\* A Read without shouldCache of an object the cache holds went to the wrapped
\* reader and succeeded.
C17_Witness ==
    /\ rwCall.op = "Read"
    /\ ~rwCall.args.shouldCache
    /\ cache[key(rwCall.args.keypath, rwCall.args.name)].exists
    /\ Len(rwCalls) = 1
    /\ rwRet.err = "none"

\* A step of the Write in flight, which was called with shouldCache.
CachedWriteStep == wr.pc = "calling" /\ wr' # wr /\ wr.call.args.shouldCache

\* C18: a Write with shouldCache whose data can be read first stores the bytes read
\* in the cache under the key of the object, the store untouched, and then writes
\* these bytes, with their length, to the wrapped writer, which holds them if it
\* succeeds; one whose data cannot be read calls neither, changes neither the
\* cache nor the store, and returns the error.
C18_CachedWriteStoresThenDelegates ==
    /\ [](rwCall.op = "Write" /\ rwCall.args.shouldCache =>
            IF rwCall.args.data.fails
            THEN rwCalls = <<>> /\ rwRet.err = "readErr"
            ELSE rwCalls =
                    <<CacheCall("Store", [keys |-> <<key(rwCall.args.keypath, rwCall.args.name)>>,
                                          bufs |-> <<rwCall.args.data.bytes>>]),
                      NextCall("Write", [name |-> rwCall.args.name,
                                         keypath |-> rwCall.args.keypath,
                                         data |-> BytesReader(rwCall.args.data.bytes),
                                         size |-> Len(rwCall.args.data.bytes),
                                         shouldCache |-> FALSE])>>)
    /\ [][CachedWriteStep =>
            \A o \in {ObjectOf(wr.call.args)}, b \in {wr.call.args.data.bytes} :
                IF wr.made = <<>>
                THEN /\ cache' = [cache EXCEPT ![key(o.keypath, o.name)] = Holding(b)]
                     /\ nextStore' = nextStore
                     /\ wr'.pc = "calling"
                ELSE /\ cache' = cache
                     /\ wr'.pc = "idle"
                     /\ nextStore' = IF rwRet'.err = "none"
                                     THEN [nextStore EXCEPT ![o] = Holding(b)]
                                     ELSE nextStore]_vars
    /\ [][DataReadFailed => cache' = cache /\ nextStore' = nextStore]_vars

\* A Write with shouldCache of one byte, announced with another size, is in the
\* cache and in the store.
C18_Witness ==
    /\ rwCall.op = "Write"
    /\ rwCall.args.shouldCache
    /\ ~rwCall.args.data.fails
    /\ Len(rwCall.args.data.bytes) > 0
    /\ rwCall.args.size # Len(rwCall.args.data.bytes)
    /\ Len(rwCalls) = 2
    /\ rwRet.err = "none"
    /\ nextStore[ObjectOf(rwCall.args)] = cache[key(rwCall.args.keypath, rwCall.args.name)]

(***************************************************************************)
(* Claims about the hedging decorator.                                     *)
(***************************************************************************)
\* The first attempt had not returned when the call had run for HedgeAt.
FirstSlow == clock >= hedgeAt /\ (firstReturnedAt = -1 \/ firstReturnedAt >= hedgeAt)

SecondIssued == attempts[2] # "none"

\* C19, as stated: a Read or ReadRange issues a second attempt exactly when hedging
\* is enabled and the first attempt had not returned within HedgeAt; it issues two
\* requests then and one otherwise.
C19_SecondAttemptIffFirstSlow ==
    hedgeOp \in HedgedOps =>
        /\ SecondIssued <=> (hedgeAt > 0 /\ FirstSlow)
        /\ requests = (IF hedgeAt > 0 /\ FirstSlow THEN 2 ELSE 1)

\* C19, amended: a Read or ReadRange issues a second attempt exactly when hedging
\* is enabled and the first attempt either had not returned within HedgeAt or has
\* failed; it issues two requests then and one otherwise, never more than two.
C19_SecondAttemptIffFirstSlowOrFailed ==
    hedgeOp \in HedgedOps =>
        /\ SecondIssued <=> (hedgeAt > 0 /\ (FirstSlow \/ attempts[1] = "failed"))
        /\ requests = (IF SecondIssued THEN 2 ELSE 1)
        /\ requests <= 2

\* The first attempt of a hedged read was still in flight at HedgeAt; the second
\* attempt was issued and returned first.
C19_Witness ==
    /\ hedgeOp \in HedgedOps
    /\ hedgeAt > 0
    /\ clock >= hedgeAt
    /\ attempts = <<"cancelled", "ok">>
    /\ requests = 2
    /\ hedgeRet = "ok"

\* C20: a List or a Write issues one backend request, whatever HedgeAt is and
\* however long the request takes, also when it fails.
C20_WritesAndListsNotHedged ==
    hedgeOp \in {"List", "Write"} => requests = 1 /\ attempts[2] = "none"

\* A Write under hedging is still in flight after HedgeAt, with one request.
C20_Witness ==
    /\ hedgeOp = "Write"
    /\ hedgeAt > 0
    /\ clock > hedgeAt
    /\ attempts = <<"inflight", "none">>
    /\ requests = 1

\* C21: a hedged read hands its caller one result: once the call has returned, its
\* result stays until the next call begins and no attempt is left in flight.  The
\* call has returned success exactly when one of its attempts succeeded, and then
\* no other attempt did; it has returned a failure only when every attempt it
\* issued has failed; otherwise it ended with the deadline of the caller.
C21_OneResultSuccessWins ==
    /\ [](hedgeOp \in HedgedOps =>
            /\ hedgeRet = "ok" <=> (\E i \in 1..2 : attempts[i] = "ok")
            /\ Cardinality({ i \in 1..2 : attempts[i] = "ok" }) <= 1
            /\ hedgeRet = "err" =>
                 /\ attempts[1] = "failed"
                 /\ attempts[2] \in {"failed", "none"}
                 /\ attempts[2] = "none" => ~hedging(hedgeOp, hedgeAt)
            /\ hedgeRet \in {"ok", "err", "deadline"} =>
                 \A i \in 1..2 : attempts[i] # "inflight"
            /\ hedgeRet = "running" => \E i \in 1..2 : attempts[i] = "inflight")
    /\ [][(hedgeRet # "running" /\ (hedgeRet' # hedgeRet \/ callErr' # callErr)) =>
            (hedgeRet' = "running" /\ attempts' = <<"inflight", "none">>)]_vars

\* The first attempt of a hedged read failed after the second was issued, and the
\* second then succeeded: the call returned success.
C21_Witness ==
    /\ hedgeOp \in HedgedOps
    /\ hedgeAt > 0
    /\ firstReturnedAt >= hedgeAt
    /\ attempts = <<"failed", "ok">>
    /\ hedgeRet = "ok"

\* C22: the error a read returns is backend.ErrDoesNotExist when the store
\* answered with its object-not-found error, and in every other case the very
\* error the store gave, nil included.
C22_ReadErrorsNormalized ==
    hedgeOp \in HedgedOps =>
        /\ storeErr = ErrObjectNotExist => callErr = ErrDoesNotExist
        /\ storeErr # ErrObjectNotExist => callErr = storeErr

\* A read came back from the store without its object, and its caller got the
\* canonical error.
C22_Witness ==
    /\ hedgeOp \in HedgedOps
    /\ hedgeRet = "ok"
    /\ storeErr = ErrObjectNotExist
    /\ callErr = ErrDoesNotExist

\* C23: once the shards that were filled with the ids of the block have been
\* marshalled, written as bloom-0..bloom-(N-1) and read back, every id of the
\* block tests true against the shard ShardKeyForTraceID(id, N) names, so the
\* verification never reports a missing id.
C23_BloomNoFalseNegatives ==
    /\ bloomResult # "corrupt"
    /\ (bloomPc \in {"test", "done"} /\ Len(bloomFilters) = bloomMeta) =>
            \A n \in 1..Len(bloomIDs) :
                Test(bloomFilters[ShardKeyForTraceID(bloomIDs[n], bloomMeta) + 1], bloomIDs[n])

\* A block with ids in two shards was verified, and the filters read back still
\* tell an id of the block from one that is not in it.
C23_Witness ==
    /\ bloomResult = "verified"
    /\ bloomMeta >= 2
    /\ \E n1, n2 \in 1..Len(bloomIDs) :
            ShardKeyForTraceID(bloomIDs[n1], bloomMeta) # ShardKeyForTraceID(bloomIDs[n2], bloomMeta)
    /\ \E r \in BloomRanks :
            ~Test(bloomFilters[ShardKeyForTraceID(BloomID(r), bloomMeta) + 1], BloomID(r))

AllHealthy == \A s \in AllSubservices : subState[s] \in {"Running", "absent"}

AllStopped == \A s \in AllSubservices : subState[s] \in Stopped \cup {"absent"}

StartingReturned == startingRet = "none" /\ startingRet' # "none"

RunningReturned == runningRet = "none" /\ runningRet' # "none"

StoppingReturned == stoppingRet = "none" /\ stoppingRet' # "none"

\* C24 as stated: d.starting returns nil only with every subservice healthy;
\* d.running returns an error whenever a subservice has failed and nil when the
\* context was cancelled with no failure; d.stopping has every subservice
\* stopping and returns only when all have stopped.
C24_SubserviceFailureFailsParent ==
    /\ [][StartingReturned /\ startingRet' = "nil" => AllHealthy]_vars
    /\ [][RunningReturned => (runningRet' = "error" <=> watcher # <<>>)]_vars
    /\ [][RunningReturned => ~(\E s \in AllSubservices : subState'[s] \in {"New", "Starting", "Running"})]_vars
    /\ [][StoppingReturned => AllStopped]_vars

\* C24, amended: as stated, except that d.running, once the context is cancelled
\* and a subservice has failed, may return either way; it returns an error only
\* after a failure, nil only after the cancellation, and it does return.  A
\* service whose running phase returned an error ends FAILED.
C24_SubserviceFailureFailsParentUnlessCancelled ==
    /\ [][StartingReturned /\ startingRet' = "nil" => AllHealthy]_vars
    /\ [][RunningReturned =>
            /\ runningRet' = "error" => watcher # <<>>
            /\ runningRet' = "nil" => svcCtx = "cancelled"
            /\ (watcher # <<>> /\ svcCtx = "live") => runningRet' = "error"
            /\ watcher = <<>> => runningRet' = "nil"]_vars
    /\ [][RunningReturned => ~(\E s \in AllSubservices : subState'[s] \in {"New", "Starting", "Running"})]_vars
    /\ [][StoppingReturned => AllStopped]_vars
    /\ [](svcState = "Terminated" => runningRet = "nil")
    /\ ((svcState = "Running" /\ (watcher # <<>> \/ svcCtx = "cancelled")) ~> svcState # "Running")

\* With the global strategy, a subservice failed while the distributor was
\* running with a live context; d.running returned an error, the other
\* subservices were stopped and the service ended FAILED.
C24_Witness ==
    /\ strategy = "global"
    /\ startingRet = "nil"
    /\ runningRet = "error"
    /\ svcCtx = "live"
    /\ stoppingRet = "nil"
    /\ svcState = "Failed"
    /\ \E s \in AllSubservices : subState[s] = "Failed"
    /\ \E s \in AllSubservices : subState[s] = "Terminated"

\* C25: with a combiner, a lookup that returns without error returns the
\* combination of every object the block stores under the id, also when the id is
\* the last object of one page and the first of the next page, whose record
\* carries a larger id.
C25_LookupComplete ==
    (FindReturnedOk /\ combinerSet) => bytesFound = CombinedPages(1, Len(blockPages))

ErrorSources == {"indexFind", "indexAt", "read", "zeroPages", "iter"}

\* C26: Find never returns bytes together with an error: every error of
\* index.Find, index.At, the data reader, the page iterator or a read of zero
\* pages ends Find with nil bytes, and these are the only errors Find returns, an
\* error of the combiner not being one of them.
C26_NoBytesWithError ==
    /\ [](findErr \in ErrorSources \cup {"none"})
    /\ [](findErr # "none" => (findPc = "done" /\ bytesFound = Nil))
    /\ [][(~combineErr /\ combineErr') =>
            /\ findErr' = "none"
            /\ findPc' = "at"
            /\ bytesFound' = Combine(bytesFound, findOne(blockPages, combinerSet, findID, record))]_vars

\* The combiner returned an error on the first page, the lookup went on to the
\* next record, and the data reader then failed: what had been combined was
\* dropped.
C26_Witness ==
    /\ findPc = "done"
    /\ combineErr
    /\ findErr = "read"
    /\ Len(pagesRead) = 2
    /\ bytesFound = Nil

\* C27: Find terminates: the position i grows by one per iteration, the loop goes
\* on only with a record that exists and carries the target id, at most as many
\* pages are read as there are records from the found position to the end of the
\* index, and Find returns in the end.
C27_FindTerminates ==
    /\ [][recIdx' # recIdx => (recIdx' = recIdx + 1 \/ findPc = "start")]_vars
    /\ [][(findPc = "at" /\ findPc' = "findOne") =>
            (record' = At(Index(blockPages), recIdx) /\ record' # NoRecord /\ record'.id = findID
             /\ Len(atCalls') = Len(pagesRead))]_vars
    /\ [](Len(pagesRead) <= Len(blockPages) - FirstPos)
    /\ [](findPc = "at" => recIdx = FirstPos + Len(pagesRead))
    /\ <>(findPc = "done")

\* Every record from the found position on carried the target id: Find read each
\* of their pages once and stopped at the end of the index.
C27_Witness ==
    /\ FindReturnedOk /\ combinerSet
    /\ FirstPos = 0
    /\ Len(blockPages) >= 3
    /\ Len(pagesRead) = Len(blockPages)
    /\ record = NoRecord

\* The calls of the last decorator call on the wrapped reader or writer, and its
\* stores in the cache.
NextCalls(calls) == { n \in 1..Len(calls) : calls[n].on = "next" }

StoreCalls(calls) == { n \in 1..Len(calls) : calls[n].on = "cache" /\ calls[n].op = "Store" }

CachedRead(call) == call.op = "Read" /\ call.args.shouldCache

\* A Read returned on this step from its first call on the cache.
ReadHit == rd.pc = "idle" /\ rd'.pc = "idle" /\ Returned /\ rwCall'.op = "Read"

\* C28: a Read with shouldCache that finds the key in the cache returns the cached
\* bytes, their length as size and no error, without calling the wrapped reader;
\* otherwise it opens the object in the wrapped store exactly once, reads its
\* body, stores what it read under the key only if both succeeded, so that what it
\* stores is the whole object as it was when opened or as it is when read, and on
\* a failure returns the error and leaves the cache as it was.
C28_CachedRead ==
    /\ [][ReadHit =>
            \A k \in {key(rwCall'.args.keypath, rwCall'.args.name)} :
                /\ rwCall'.args.shouldCache
                /\ cache[k].exists
                /\ rwCalls' = <<CacheCall("Fetch", [keys |-> <<k>>])>>
                /\ rwRet' = [val |-> cache[k].bytes, size |-> Len(cache[k].bytes), err |-> "none"]
                /\ cache' = cache]_vars
    /\ [][(rd.pc = "fetched" /\ rd' # rd /\ rd.shouldCache) =>
            \A k \in {key(rd.o.keypath, rd.o.name)} :
                /\ cache' = cache
                /\ IF rd'.pc = "opened"
                   THEN /\ nextStore[rd.o].exists
                        /\ rd'.object \in Bodies(nextStore[rd.o].bytes)
                        /\ rd'.size = Len(nextStore[rd.o].bytes)
                   ELSE /\ rd'.pc = "idle"
                        /\ rwRet'.err # "none"
                        /\ rwCalls' = <<CacheCall("Fetch", [keys |-> <<k>>]),
                                        NextCall("Read", [name |-> rd.o.name,
                                                          keypath |-> rd.o.keypath,
                                                          shouldCache |-> FALSE])>>]_vars
    /\ [][(rd.pc = "opened" /\ rd' # rd /\ rd.shouldCache) =>
            \A k \in {key(rd.o.keypath, rd.o.name)} :
                /\ cache' = cache
                /\ IF rd'.pc = "got"
                   THEN \/ ~rd.object.fails /\ rd'.b = rd.object.bytes
                        \/ nextStore[rd.o] = Holding(rd'.b)
                   ELSE /\ rd'.pc = "idle"
                        /\ rwRet'.err # "none"
                        /\ rwCalls' = <<CacheCall("Fetch", [keys |-> <<k>>]),
                                        NextCall("Read", [name |-> rd.o.name,
                                                          keypath |-> rd.o.keypath,
                                                          shouldCache |-> FALSE])>>]_vars
    /\ [][(rd.pc = "got" /\ rd' # rd) =>
            \A k \in {key(rd.o.keypath, rd.o.name)} :
                /\ cache' = [cache EXCEPT ![k] = Holding(rd.b)]
                /\ rwRet' = [val |-> rd.b, size |-> rd.size, err |-> "none"]
                /\ Len(rwCalls') = 3
                /\ NextCalls(rwCalls') = {2}
                /\ rwCalls'[3] = CacheCall("Store", [keys |-> <<k>>, bufs |-> <<rd.b>>])]_vars

\* A Read with shouldCache found a non-empty object in the cache and returned it
\* without calling the wrapped reader.
C28_Witness ==
    /\ CachedRead(rwCall)
    /\ rwCalls = <<CacheCall("Fetch", [keys |-> <<key(rwCall.args.keypath, rwCall.args.name)>>])>>
    /\ rwRet.err = "none"
    /\ Len(rwRet.val) >= 1
    /\ rwRet.size = Len(rwRet.val)
    /\ cache[key(rwCall.args.keypath, rwCall.args.name)] = Holding(rwRet.val)

CacheEntry(o) == cache[key(o.keypath, o.name)]

ReadReturnedBytes == rwCall.op = "Read" /\ rwRet.err = "none"

\* C29: with every object written at most once, after any sequence of calls an
\* entry of the cache is the object the store holds, bytes and all, and a Read
\* returns only bytes the store holds, also after an underlying write that
\* failed.
C29_CacheAgreesWithStore ==
    Quiet =>
        /\ \A o \in Objects : CacheEntry(o).exists => nextStore[o] = CacheEntry(o)
        /\ ReadReturnedBytes => nextStore[ObjectOf(rwCall.args)] = Holding(rwRet.val)

\* C30: two different objects have different cache keys, so a Read with
\* shouldCache that returns bytes returns the bytes of the object it named: those
\* the store holds for it or, after a failed write, those of its own Write.
C30_KeyIdentifiesObject ==
    (CachedRead(rwCall) /\ rwRet.err = "none") =>
        \A o \in {ObjectOf(rwCall.args)} :
            /\ \A other \in Objects \ {o} :
                    key(other.keypath, other.name) # key(o.keypath, o.name)
            /\ \/ nextStore[o] = Holding(rwRet.val)
               \/ written[o] \in {"running", "failed"}

CopyStepTaken == cPos # 0 /\ (cPos' # cPos \/ cBuf' # cBuf)

\* C31: CopyBlock preserves the block: none of its steps changes the source; a
\* read takes the content the source holds under the name, and the write that
\* follows puts exactly what was read under the same name in the destination;
\* after a successful CopyBlock the destination holds data, index,
\* bloom-0..bloom-(N-1) and the meta, each equal to the source's unless the bloom
\* regeneration wrote to a backend meanwhile.
C31_CopyBlockPreservesBlock ==
    /\ [][CopyStepTaken =>
            /\ store'["local"] = store["local"]
            /\ cBuf' # 0 => cBuf' = store["local"][CopyBlockOrder(shardCount)[cPos]]
            /\ \A name \in ObjectNames :
                 store'["remote"][name] # store["remote"][name] =>
                    /\ name = CopyBlockOrder(shardCount)[cPos]
                    /\ name # nameMeta => store'["remote"][name] = cBuf]_vars
    /\ [](cResult = "ok" =>
            \A n \in 1..Len(CopyBlockOrder(shardCount)) :
                Present("remote", CopyBlockOrder(shardCount)[n]))
    /\ []((cResult = "ok" /\ gPc = "idle") =>
            \A name \in ObjectNames : store["remote"][name] = store["local"][name])

\* A block of two shards whose first shard had been regenerated was copied: the
\* destination holds every object with the content of the source.
C31_Witness ==
    /\ cResult = "ok"
    /\ shardCount >= 2
    /\ store["local"][bloomName(0)] = Regenerated
    /\ store["local"][nameObjects] = Original
    /\ \A name \in ObjectNames : store["remote"][name] = store["local"][name]

\* C32: Push asks the rate limiter before it examines the trace ids.  A request of a
\* tenant that exceeds the bucket and holds an invalid trace id fails with
\* ResourceExhausted and is charged to rate_limited only; a request rejected with
\* InvalidArgument was admitted first, and its size was taken from the bucket of
\* its tenant.
C32_AdmissionBeforeTraceIDValidation ==
    /\ [][(pushPc = "start" /\ userID # NoTenant /\ HasInvalidSpan
              /\ ~AllowN(rateTokens, userID, ReqSize(req))) =>
             /\ pushErr' = "ResourceExhausted"
             /\ limiter' = "denied"
             /\ discardedSpans' = [r \in Reasons |-> IF r = "rate_limited" THEN SpanCount(req) ELSE 0]]_vars
    /\ [][(pushPc = "start" /\ pushErr' = "InvalidArgument") =>
             /\ limiter' = "allowed"
             /\ ReqSize(req) > 0
             /\ rateTokens'[userID] = rateTokens[userID] - ReqSize(req)]_vars
    /\ [](pushErr = "InvalidArgument" => (limiter = "allowed" /\ rateTokens[userID] < MaxBudget))

\* A request of two spans, one with an invalid trace id, was rejected with
\* InvalidArgument after its five units were taken from the bucket of the tenant.
C32_Witness ==
    /\ pushPc = "done"
    /\ userID = TenantA
    /\ HasInvalidSpan
    /\ SpanCount(req) = 2
    /\ pushErr = "InvalidArgument"
    /\ limiter = "allowed"
    /\ rateTokens[TenantA] = MaxBudget - 5
    /\ discardedSpans["internal_error"] = 2

\* The request holds no span: no batch, or a batch whose ILS hold none.
EmptyRequest == req.isNil \/ SpanCount(req) = 0

\* C33: a Push of a tenant with a nil batch or a batch of zero spans returns
\* success; it takes nothing from the rate limiter, which is not asked, moves
\* neither the spans-received nor a discarded_spans counter and calls no
\* ingester, whatever is left in the bucket of the tenant.
C33_EmptyPushIsNoOp ==
    /\ []((userID # NoTenant /\ EmptyRequest /\ pushPc # "start") =>
             /\ pushPc = "done"
             /\ pushErr = "none"
             /\ limiter = "notAsked"
             /\ spansIngested = 0
             /\ \A r \in Reasons : discardedSpans[r] = 0
             /\ NoIngesterRPC)
    /\ [][(userID # NoTenant /\ EmptyRequest) => rateTokens' = rateTokens]_vars

\* No discarded_spans counter has moved.
NothingDiscarded == \A r \in Reasons : discardedSpans[r] = 0

\* C34: a Push of a tenant moves the discarded_spans counters at most once, at the
\* moment it returns an error; it then adds the span count of the request, which
\* is positive, to exactly one reason.  A Push that has not returned an error, and
\* so every successful Push, has moved none of them.
C34_DiscardedOnceIffError ==
    /\ []((userID # NoTenant /\ (pushPc # "done" \/ pushErr = "none")) => NothingDiscarded)
    /\ []((userID # NoTenant /\ pushPc = "done" /\ pushErr # "none") =>
             /\ SpanCount(req) > 0
             /\ \E r \in Reasons :
                  discardedSpans = [x \in Reasons |-> IF x = r THEN SpanCount(req) ELSE 0])
    /\ [][discardedSpans' # discardedSpans =>
             /\ NothingDiscarded
             /\ pushPc # "done" /\ pushPc' = "done"
             /\ pushErr' # "none"]_vars

\* A Push of two spans failed in the fan-out with an error that carries no prefix
\* after one ingester had accepted its request: the two spans were charged once.
C34_Witness ==
    /\ userID = TenantA
    /\ pushPc = "done"
    /\ fanOut
    /\ pushErr = "DeadlineExceeded"
    /\ SpanCount(req) = 2
    /\ \E g \in Ingesters : accepted[g]
    /\ discardedSpans = [x \in Reasons |-> IF x = "internal_error" THEN 2 ELSE 0]

\* The instances the fan-out of the Push has a request for.
Addressed == { g \in Ingesters : rpc[g] # "idle" }

\* C35: the fan-out of a Push addresses, for every key, the replica set of one ring
\* operation, which only the configuration chooses: Write, the extending
\* operation, when ExtendWrites is set, WriteNoExtend otherwise.  With ExtendWrites
\* unset no JOINING instance is addressed and no key gets more than
\* ReplicationFactor instances; only with it set a JOINING instance is addressed.
C35_ExtendWritesChoosesRingOperation ==
    fanOut =>
        /\ cfg.ExtendWrites =>
             Addressed = UNION { Get(keys[n], "Write", ringDesc) : n \in 1..Len(keys) }
        /\ ~cfg.ExtendWrites =>
             /\ Addressed = UNION { Get(keys[n], "WriteNoExtend", ringDesc) : n \in 1..Len(keys) }
             /\ \A g \in Addressed : ringDesc[g] # "JOINING"
             /\ Len(keys) = 1 => Cardinality(Addressed) <= ReplicationFactor
        /\ (\E g \in Addressed : ringDesc[g] = "JOINING") => cfg.ExtendWrites

\* With ExtendWrites set a Push of two keys succeeded after the JOINING instance
\* had accepted its request as one of four instances of a ring with three replicas.
C35_Witness ==
    /\ fanOut
    /\ cfg.ExtendWrites
    /\ Len(keys) = 2
    /\ pushPc = "done"
    /\ pushErr = "none"
    /\ Cardinality(Addressed) = ReplicationFactor + 1
    /\ \E g \in Addressed : ringDesc[g] = "JOINING" /\ accepted[g]

\* Run has returned nil.
BloomRunReturnedNil == bloomPc = "done" /\ bloomResult \in {"ok", "verified"}

\* C36: the bloom regeneration command returns nil only when every shard was read
\* back and parsed and every id of the replay tested positive in its shard; and
\* when the shard count of the generated filter differs from the meta's, it
\* returns an error with no shard written.
C36_SuccessOnlyIfVerified ==
    /\ BloomRunReturnedNil =>
         /\ Len(bloomFilters) = bloomMeta
         /\ \A n \in 1..Len(bloomIDs) :
              Test(bloomFilters[ShardKeyForTraceID(bloomIDs[n], bloomMeta) + 1], bloomIDs[n])
    /\ (bloomPc = "done" /\ bloomResult # "none" /\ blooms = <<>>) =>
         /\ bloomResult = "error"
         /\ \A i \in DOMAIN bloomObjs : bloomObjs[i] = Nil

====
